---------------------------- MODULE Spec2Model ----------------------------
(* A model of the PSF calculator GUI (r0mz32/GUI-ITMO): the table of optical
   rows, the unit conversions that keep each row's derived step values
   consistent, the numerical PSF engine, the batch computation of rows on
   worker threads and the composition of the system PSF.

   Numbers.  Python floats are modelled as exact rationals <<n, d>> with
   d > 0 and gcd(n, d) = 1; floating-point rounding is outside the model.
   The engine's complex exponentials are exact only for phases that are a
   whole number of quarter turns, and its discrete Fourier transform only
   for grid sides dividing 4, so the model runs the engine on sides 1, 2
   and 4 with coefficients that keep every phase a quarter turn.          *)
EXTENDS Integers, Sequences, FiniteSets, Bags, TLC

(***************************************************************************)
(* Exact rational arithmetic (the model of Python's float operators).      *)
(***************************************************************************)
\* Python evaluates the arguments of a call once and binds the values to
\* the parameters.  The arithmetic is written as functions, which take
\* values; Bind and Bind2 do the same for an operator's arguments.
Bind(x, F(_)) == CHOOSE r \in {F(v) : v \in {x}} : TRUE
Bind2(x, y, F(_, _)) == CHOOSE r \in {F(u, v) : u \in {x}, v \in {y}} : TRUE

Abs(x) == IF x < 0 THEN -x ELSE x

GCDOf[a \in Nat, b \in Nat] == IF b = 0 THEN a ELSE GCDOf[b, a % b]
GCD(a, b) == GCDOf[a, b]

Reduced[n \in Int, d \in Int] ==
    LET g == GCD(Abs(n), Abs(d))
        s == IF d < 0 THEN -1 ELSE 1
    IN  <<(s * n) \div g, (s * d) \div g>>
Rat(n, d) == Reduced[n, d]

RInt(n) == <<n, 1>>
Sum[a \in Int \X Int, b \in Int \X Int] ==
    LET g == GCD(a[2], b[2])
    IN  Rat(a[1] * (b[2] \div g) + b[1] * (a[2] \div g), (a[2] \div g) * b[2])
RAdd(a, b) == Sum[a, b]
RSub(a, b) == Sum[a, Bind(b, LAMBDA y : <<-y[1], y[2]>>)]
\* the common factors are taken out before the products are formed
Product[a \in Int \X Int, b \in Int \X Int] ==
    LET g == GCD(Abs(a[1]), b[2])
        h == GCD(Abs(b[1]), a[2])
    IN  <<(a[1] \div g) * (b[1] \div h), (a[2] \div h) * (b[2] \div g)>>
RMul(a, b) == Product[a, b]
Quotient[a \in Int \X Int, b \in Int \X Int] ==
    IF b[1] = 0 THEN Rat(a[1] * b[2], 0)
    ELSE RMul(a, IF b[1] < 0 THEN <<-b[2], -b[1]>> ELSE <<b[2], b[1]>>)
RDiv(a, b) == Quotient[a, b]
RLe(a, b) == a[1] * b[2] <= b[1] * a[2]
RLt(a, b) == a[1] * b[2] < b[1] * a[2]
RMax(a, b) == IF RLt(a, b) THEN b ELSE a
RZero == RInt(0)
ROne == RInt(1)
RPos(a) == a[1] > 0


(***************************************************************************)
(* The row record (OpticalSystemRow) and its defaults.                     *)
(***************************************************************************)
\* Python's None, as a record so that it compares with arrays
None == [none |-> TRUE]

\* Grid side of a new row.  The program's default is 512; the model scales
\* the grid sides down (512 -> 2) so that PSF arrays are explicit values.
SAMPLE_SIZE_DEFAULT == 2

WAVELENGTH_DEFAULT == Rat(111, 200)     \* 0.555
NA_DEFAULT == Rat(6, 5)                 \* 1.2
MAG_DEFAULT == RInt(100)                \* 100.0
DEFOCUS_DEFAULT == RZero
ASTIG_DEFAULT == RZero
DIAM_PUPIL_DEFAULT == Rat(15, 2)        \* 7.5

OpticalSystemRow ==
    [wavelength |-> WAVELENGTH_DEFAULT, back_aperture |-> NA_DEFAULT,
     magnification |-> MAG_DEFAULT, defocus |-> DEFOCUS_DEFAULT,
     astigmatism |-> ASTIG_DEFAULT, sample_size |-> SAMPLE_SIZE_DEFAULT,
     step_obj_can |-> RZero, step_obj_microns |-> RZero,
     step_im_can |-> RZero, step_im_microns |-> RZero,
     diam_pupil |-> DIAM_PUPIL_DEFAULT, step_pupil |-> RZero,
     psf_data |-> None, strehl_ratio |-> RZero,
     status |-> "not_computed", error_message |-> ""]

\* get_params: the arguments handed to PSFCalculator.compute
get_params(row) ==
    [size |-> row.sample_size, wavelength |-> row.wavelength,
     back_aperture |-> row.back_aperture, magnification |-> row.magnification,
     defocus |-> row.defocus, astigmatism |-> row.astigmatism,
     diam_pupil |-> row.diam_pupil]

\* to_dict / from_dict: the fields a saved configuration keeps
to_dict(row) ==
    [wavelength |-> row.wavelength, back_aperture |-> row.back_aperture,
     magnification |-> row.magnification, defocus |-> row.defocus,
     astigmatism |-> row.astigmatism, sample_size |-> row.sample_size]

from_dict(data) ==
    [OpticalSystemRow EXCEPT
        !.wavelength = data.wavelength, !.back_aperture = data.back_aperture,
        !.magnification = data.magnification, !.defocus = data.defocus,
        !.astigmatism = data.astigmatism, !.sample_size = data.sample_size]

(***************************************************************************)
(* calculate_step_params: resolve the derived step values from the source  *)
(* parameter.                                                              *)
(***************************************************************************)
FLOOR == Rat(1, 1000)                   \* the 0.001 of max(x, 0.001)

SourceParams == {"Diam pupil", "Step pupil", "Step object", "Step image"}
SourceUnits == {"c.u.", "um"}

IntMax(a, b) == IF a < b THEN b ELSE a

WithMicrons(res, wavelength, back_aperture, aperture) ==
    [res EXCEPT
        !.step_obj_microns = RDiv(RMul(res.step_obj_can, wavelength), aperture),
        !.step_im_microns = RDiv(RMul(res.step_im_can, wavelength), back_aperture)]

calculate_step_params(row, source_param, source_units) ==
    LET sample_size == row.sample_size
        wavelength == RMax(row.wavelength, FLOOR)
        back_aperture == RMax(row.back_aperture, FLOOR)
        magnification == RMax(row.magnification, FLOOR)
        aperture == RMul(magnification, back_aperture)
        blank == [diam_pupil |-> RZero, step_pupil |-> RZero,
                  step_obj_can |-> RZero, step_im_can |-> RZero,
                  step_obj_microns |-> RZero, step_im_microns |-> RZero]
        fromPupil(diam_pupil, step_pupil) ==
            LET step_im_can ==
                    RDiv(ROne, RMax(RMul(step_pupil, RInt(sample_size)), FLOOR))
            IN  [blank EXCEPT !.diam_pupil = diam_pupil,
                              !.step_pupil = step_pupil,
                              !.step_obj_can = step_im_can,
                              !.step_im_can = step_im_can]
        fromStep(step_can) ==
            LET step_pupil ==
                    RDiv(ROne, RMax(RMul(step_can, RInt(sample_size)), FLOOR))
            IN  [blank EXCEPT !.diam_pupil = RMul(step_pupil, RInt(sample_size)),
                              !.step_pupil = step_pupil,
                              !.step_obj_can = step_can,
                              !.step_im_can = step_can]
        res ==
            CASE source_param = "Diam pupil" ->
                    LET diam_pupil == RMax(row.diam_pupil, FLOOR)
                    IN  fromPupil(diam_pupil,
                                  RDiv(diam_pupil, RInt(IntMax(sample_size, 1))))
              [] source_param = "Step pupil" ->
                    LET step_pupil == RMax(row.step_pupil, FLOOR)
                    IN  fromPupil(RMul(step_pupil, RInt(sample_size)), step_pupil)
              [] source_param = "Step object" ->
                    IF source_units = "c.u."
                    THEN fromStep(RMax(row.step_obj_can, FLOOR))
                    ELSE fromStep(RDiv(RMul(RMax(row.step_obj_microns, FLOOR),
                                            aperture), wavelength))
              [] source_param = "Step image" ->
                    IF source_units = "c.u."
                    THEN fromStep(RMax(row.step_im_can, FLOOR))
                    ELSE fromStep(RDiv(RMul(RMax(row.step_im_microns, FLOOR),
                                            back_aperture), wavelength))
    IN  WithMicrons(res, wavelength, back_aperture, aperture)

\* _recalculate_row_params on one row record
WithResult(row, result) ==
    [row EXCEPT !.diam_pupil = result.diam_pupil,
                !.step_pupil = result.step_pupil,
                !.step_obj_can = result.step_obj_can,
                !.step_im_can = result.step_im_can,
                !.step_obj_microns = result.step_obj_microns,
                !.step_im_microns = result.step_im_microns]

RecalculatedRow(row, choice, units) ==
    WithResult(row, calculate_step_params(row, choice, units))

(***************************************************************************)
(* The PSF engine (PSFCalculator).  A real array is a record               *)
(* [size |-> N, at |-> f] with f defined on (0..N-1) \X (0..N-1).          *)
(***************************************************************************)
Idx(n) == 0 .. (n - 1)
Grid(n) == Idx(n) \X Idx(n)

\* a NumPy array's elements are stored values: the function is built
\* element by element
RECURSIVE Stored(_, _)
Stored(S, f) ==
    Bind(S, LAMBDA T :
        IF T = {} THEN <<>>
        ELSE LET e == CHOOSE x \in T : TRUE
             IN  (e :> f[e]) @@ Stored(T \ {e}, f))

RECURSIVE SumOver(_, _)
SumOver(S, at) ==
    Bind(S, LAMBDA T :
        IF T = {} THEN RZero
        ELSE LET e == CHOOSE x \in T : TRUE
             IN  RAdd(at[e], SumOver(T \ {e}, at)))

\* np.sum of a real array
ArraySum(arr) == Bind(arr, LAMBDA a : SumOver(DOMAIN a.at, a.at))

\* exp(2*pi*i*k/4) as a Gaussian integer <<re, im>>
Quarter(k) ==
    CASE k % 4 = 0 -> <<1, 0>>
      [] k % 4 = 1 -> <<0, 1>>
      [] k % 4 = 2 -> <<-1, 0>>
      [] k % 4 = 3 -> <<0, -1>>

\* exp(i*W) for W = 2*pi*turns; defined for whole quarter turns only
Cis(turns) ==
    LET k4 == RMul(RInt(4), turns)
    IN  CASE k4[2] = 1 -> Quarter(k4[1])

CMul(a, b) == <<a[1] * b[1] - a[2] * b[2], a[1] * b[2] + a[2] * b[1]>>
CAdd(a, b) == <<a[1] + b[1], a[2] + b[2]>>

\* coords = (idx - size // 2) * step_pupil
Coord(k, size, step_pupil) == RMul(RInt(k - (size \div 2)), step_pupil)

\* meshgrid(coords, coords): X varies along the second index, Y along the first
Rho2(i, j, size, step_pupil) ==
    LET X == Coord(j, size, step_pupil)
        Y == Coord(i, size, step_pupil)
    IN  RAdd(RMul(X, X), RMul(Y, Y))

\* a mask that leaves the edge of the unit disk out
StrictMask(i, j, size, step_pupil) ==
    RLt(Rho2(i, j, size, step_pupil), ROne)

\* mask = rho2 <= 1.0
Mask(i, j, size, step_pupil) == RLe(Rho2(i, j, size, step_pupil), ROne)

\* a wavefront whose astigmatism term has lost its X^2 part
WTurnsAlongY(i, j, size, step_pupil, defocus, astigmatism) ==
    LET X == Coord(j, size, step_pupil)
        Y == Coord(i, size, step_pupil)
        rho2 == RAdd(RMul(X, X), RMul(Y, Y))
    IN  RAdd(RMul(defocus, RSub(RMul(RInt(2), rho2), ROne)),
             RMul(astigmatism, RMul(Y, Y)))

\* W / (2*pi) = defocus*(2*rho2 - 1) + astigmatism*rho2*cos(2*phi), where
\* phi = arctan2(X, Y) gives rho2*cos(2*phi) = Y^2 - X^2
WTurns(i, j, size, step_pupil, defocus, astigmatism) ==
    LET X == Coord(j, size, step_pupil)
        Y == Coord(i, size, step_pupil)
        rho2 == RAdd(RMul(X, X), RMul(Y, Y))
    IN  RAdd(RMul(defocus, RSub(RMul(RInt(2), rho2), ROne)),
             RMul(astigmatism, RSub(RMul(Y, Y), RMul(X, X))))

\* pupil = exp(1j * W) * mask, a complex array
calc_pupil_function(size, step_pupil, defocus, astigmatism) ==
    [size |-> size,
     at |-> Stored(Grid(size), [ij \in Grid(size) |->
                IF Mask(ij[1], ij[2], size, step_pupil)
                THEN Cis(WTurns(ij[1], ij[2], size, step_pupil,
                                defocus, astigmatism))
                ELSE <<0, 0>>])]

\* The grid and the mask over IEEE doubles: a double is a finite value, an
\* infinity (val is its sign) or a NaN.
Finite(q) == [kind |-> "finite", val |-> q]
Infinity(sign) == [kind |-> "inf", val |-> RInt(sign)]
NaN == [kind |-> "nan", val |-> RZero]

SignOf(x) == IF x.val[1] > 0 THEN 1 ELSE IF x.val[1] < 0 THEN -1 ELSE 0

\* x * y: 0 * inf is NaN
FMul(x, y) ==
    IF x.kind = "nan" \/ y.kind = "nan" THEN NaN
    ELSE IF x.kind = "finite" /\ y.kind = "finite"
    THEN Finite(RMul(x.val, y.val))
    ELSE IF SignOf(x) * SignOf(y) = 0 THEN NaN
    ELSE Infinity(SignOf(x) * SignOf(y))

\* x + y: inf + -inf is NaN
FAdd(x, y) ==
    IF x.kind = "nan" \/ y.kind = "nan" THEN NaN
    ELSE IF x.kind = "finite" /\ y.kind = "finite"
    THEN Finite(RAdd(x.val, y.val))
    ELSE IF x.kind = "inf" /\ y.kind = "inf" /\ SignOf(x) # SignOf(y) THEN NaN
    ELSE IF x.kind = "inf" THEN x ELSE y

\* x <= y: False when either is NaN
FLe(x, y) ==
    IF x.kind = "nan" \/ y.kind = "nan" THEN FALSE
    ELSE IF x.kind = "finite" /\ y.kind = "finite" THEN RLe(x.val, y.val)
    ELSE IF x.kind = "inf" /\ y.kind = "inf" THEN SignOf(x) <= SignOf(y)
    ELSE IF x.kind = "inf" THEN SignOf(x) < 0 ELSE SignOf(y) > 0

\* coords = (idx - size // 2) * step_pupil
FloatCoord(k, size, step_pupil) ==
    FMul(Finite(RInt(k - (size \div 2))), step_pupil)

\* rho2 = X**2 + Y**2
FloatRho2(i, j, size, step_pupil) ==
    LET X == FloatCoord(j, size, step_pupil)
        Y == FloatCoord(i, size, step_pupil)
    IN  FAdd(FMul(X, X), FMul(Y, Y))

\* mask = rho2 <= 1.0
FloatMask(i, j, size, step_pupil) ==
    FLe(FloatRho2(i, j, size, step_pupil), Finite(ROne))

\* abs(np.exp(1j * W) * mask) of a pupil without aberration: W is
\* 2*pi * (0.0 * (2*rho2 - 1) + 0.0 * rho2 * cos(2*phi)), a NaN when rho2
\* is not finite
FloatMagnitude(i, j, size, step_pupil) ==
    IF FloatRho2(i, j, size, step_pupil).kind # "finite" THEN "nan"
    ELSE IF FloatMask(i, j, size, step_pupil) THEN "1" ELSE "0"

\* np.fft.ifftshift / np.fft.fftshift: roll by -(n // 2) / by n // 2
ifftshift(arr) ==
    Bind2(arr, arr.size, LAMBDA a, n :
        [size |-> n,
         at |-> Stored(Grid(n), [ij \in Grid(n) |->
                    a.at[<<(ij[1] + (n \div 2)) % n, (ij[2] + (n \div 2)) % n>>]])])

fftshift(arr) ==
    Bind2(arr, arr.size, LAMBDA a, n :
        [size |-> n,
         at |-> Stored(Grid(n), [ij \in Grid(n) |->
                    a.at[<<(ij[1] + n - (n \div 2)) % n,
                           (ij[2] + n - (n \div 2)) % n>>]])])

RECURSIVE CSumOver(_, _, _, _)
CSumOver(S, arr, u, v) ==
    Bind(S, LAMBDA T :
        IF T = {} THEN <<0, 0>>
        ELSE LET e == CHOOSE x \in T : TRUE
                 w == Quarter(((4 \div arr.size) * (u * e[1] + v * e[2])) % 4)
             IN  Bind2(CMul(arr.at[e], w), CSumOver(T \ {e}, arr, u, v),
                       LAMBDA term, rest : CAdd(term, rest)))

\* np.fft.ifft2 without its 1/n^2 factor (sides dividing 4 only)
ifft2_sum(arr) ==
    Bind(arr, LAMBDA a :
        [size |-> a.size,
         at |-> Stored(Grid(a.size), [uv \in Grid(a.size) |->
                    CSumOver(Grid(a.size), a, uv[1], uv[2])])])

\* total_energy > 0 ? intensity / total_energy : intensity
DividedBy(intensity, total_energy) ==
    Bind2(intensity, total_energy, LAMBDA a, total :
        IF RPos(total)
        THEN [size |-> a.size,
              at |-> Stored(DOMAIN a.at,
                            [ij \in DOMAIN a.at |-> RDiv(a.at[ij], total)])]
        ELSE a)

\* the intensity as it would be returned were the division left out
Unnormalized(intensity) == intensity

Normalized(intensity) ==
    Bind(intensity, LAMBDA a : DividedBy(a, ArraySum(a)))

\* |field|^2 with field = ifft2(pupil) * (step_pupil / step_obj_can)
\* np.abs(field) ** 2 of the field scale * sum
AbsSquared(sum, scale) ==
    Bind2(sum, scale, LAMBDA a, c :
        [size |-> a.size,
         at |-> Stored(Grid(a.size),
                       [ij \in Grid(a.size) |->
                           RMul(RInt(a.at[ij][1] * a.at[ij][1]
                                     + a.at[ij][2] * a.at[ij][2]),
                                RMul(c, c))])])

Intensity(size, step_pupil, step_obj_can, defocus, astigmatism) ==
    AbsSquared(
        fftshift(ifft2_sum(ifftshift(
            calc_pupil_function(size, step_pupil, defocus, astigmatism)))),
        RDiv(RDiv(step_pupil, step_obj_can), RInt(size * size)))

\* PSFCalculator.compute raises (ZeroDivisionError, or numpy refusing an
\* empty transform) exactly for these arguments
compute_raises(p) ==
    p.size < 1 \/ p.diam_pupil[1] = 0 \/ p.back_aperture[1] = 0

\* PSFCalculator.compute: the returned psf
compute(p) ==
    LET step_pupil == RDiv(p.diam_pupil, RInt(p.size))
        step_obj_can == RDiv(ROne, RMul(step_pupil, RInt(p.size)))
    IN  Normalized(Intensity(p.size, step_pupil, step_obj_can,
                             p.defocus, p.astigmatism))

\* The PSF depends on size, diam_pupil, defocus and astigmatism only.  The
\* PSFs of the values the specifications draw these from are computed once
\* and kept; psf_of(p) is compute(p), looked up where it is kept.
KnownSizes == {1, 2}
KnownDiams == {Rat(15, 2), RInt(2)}
KnownDefocus == {RZero, Rat(1, 4)}
\* the phase is a whole number of quarter turns all over the pupil, so
\* that exp(1j * W) is computed exactly
QuarterTurns(size, diam_pupil, defocus, astigmatism) ==
    \A ij \in Grid(size) :
        Mask(ij[1], ij[2], size, RDiv(diam_pupil, RInt(size))) =>
            RMul(RInt(4), WTurns(ij[1], ij[2], size,
                                 RDiv(diam_pupil, RInt(size)),
                                 defocus, astigmatism))[2] = 1

KnownKeys ==
    {k \in KnownSizes \X KnownDiams \X KnownDefocus :
        QuarterTurns(k[1], k[2], k[3], RZero)}

KeyParams(k) ==
    [size |-> k[1], wavelength |-> WAVELENGTH_DEFAULT,
     back_aperture |-> NA_DEFAULT, magnification |-> MAG_DEFAULT,
     defocus |-> k[3], astigmatism |-> RZero, diam_pupil |-> k[2]]

KnownPSF == Stored(KnownKeys, [k \in KnownKeys |-> compute(KeyParams(k))])

psf_of(p) ==
    IF p.astigmatism = RZero
       /\ <<p.size, p.diam_pupil, p.defocus>> \in KnownKeys
    THEN KnownPSF[<<p.size, p.diam_pupil, p.defocus>>]
    ELSE compute(p)

\* PSFCalculator.get_step_microns after compute(p)
get_step_microns(p) ==
    LET step_pupil == RDiv(p.diam_pupil, RInt(p.size))
        step_im_can == RDiv(ROne, RMul(step_pupil, RInt(p.size)))
    IN  RDiv(RMul(step_im_can, p.wavelength), p.back_aperture)

(***************************************************************************)
(* PSFCalculator as an object: what a call reads and writes of self.       *)
(***************************************************************************)
\* the calculator objects, by identity
Calculators == {1, 2}

\* PSFCalculator.__init__
PSFCalculator ==
    [last_pupil |-> None, last_params |-> None, step_im_microns |-> RZero]

\* an exception leaving a call
Raised(kind) == [raised |-> kind]

\* the array a later call would return if it started from what the
\* calculator kept of the call before
ReturnedFromLast(self, p) ==
    IF self.last_params # None /\ self.last_params.size = p.size
    THEN compute(self.last_params)
    ELSE compute(p)

\* the array compute(**p) returns when called on the calculator self: it
\* is built from the arguments alone, self is only written
Returned(self, p) == compute(p)

\* PSFCalculator.compute called on self: self after the call and the value
\* returned or the exception raised.  diam_pupil / size and
\* 1.0 / (step_pupil * size) raise before self is written;
\* step_im_can * wavelength / back_aperture raises after last_params is.
compute_on(self, p) ==
    IF p.size = 0 \/ p.diam_pupil[1] = 0
    THEN [self |-> self, value |-> Raised("ZeroDivisionError")]
    ELSE IF p.back_aperture[1] = 0
    THEN [self |-> [self EXCEPT !.last_params = p],
          value |-> Raised("ZeroDivisionError")]
    ELSE [self |-> [self EXCEPT
                       !.last_params = p,
                       !.step_im_microns = get_step_microns(p),
                       !.last_pupil =
                           calc_pupil_function(
                               p.size, RDiv(p.diam_pupil, RInt(p.size)),
                               p.defocus, p.astigmatism)],
          value |-> Returned(self, p)]

\* PSFCalculator.compute up to the assignment of _step_im_microns: self
\* as the lines before the pupil function leave it, or the exception
compute_entered(self, p) ==
    IF p.size = 0 \/ p.diam_pupil[1] = 0
    THEN [self |-> self, value |-> Raised("ZeroDivisionError")]
    ELSE IF p.back_aperture[1] = 0
    THEN [self |-> [self EXCEPT !.last_params = p],
          value |-> Raised("ZeroDivisionError")]
    ELSE [self |-> [self EXCEPT !.last_params = p,
                                !.step_im_microns = get_step_microns(p)],
          value |-> None]

\* the module function get_last_error
get_last_error == ""

\* PSFCalculator.get_step_microns called on self
get_step_microns_on(self) ==
    IF self.last_params = None THEN Raised("RuntimeError")
    ELSE self.step_im_microns

\* the module function compute_psf: a calculator of its own for the call
compute_psf(p) == compute_on(PSFCalculator, p).value

\* scipy.signal.fftconvolve(a, b, mode='same'): the linear convolution cut
\* to a's shape, centred
RECURSIVE ConvSum(_, _, _, _, _)
ConvSum(S, a, b, i, j) ==
    Bind(S, LAMBDA T :
        IF T = {} THEN RZero
        ELSE LET e == CHOOSE x \in T : TRUE
                 bi == i - e[1]
                 bj == j - e[2]
                 term == IF bi \in Idx(b.size) /\ bj \in Idx(b.size)
                         THEN RMul(a.at[e], b.at[<<bi, bj>>])
                         ELSE RZero
             IN  RAdd(term, ConvSum(T \ {e}, a, b, i, j)))

fftconvolve_same(a, b) ==
    Bind2(a, b, LAMBDA x, y :
        LET start == (y.size - 1) \div 2
        IN  [size |-> x.size,
             at |-> Stored(Grid(x.size), [ij \in Grid(x.size) |->
                        ConvSum(Grid(x.size), x, y,
                                ij[1] + start, ij[2] + start)])])

\* the central sample over the total energy, the pixel count left out
PeakOverTotal(psf_data) ==
    IF psf_data = None \/ psf_data.size = 0 THEN RZero
    ELSE IF RPos(ArraySum(psf_data))
    THEN RDiv(psf_data.at[<<psf_data.size \div 2, psf_data.size \div 2>>],
              ArraySum(psf_data))
    ELSE RZero

\* calculate_strehl_ratio
calculate_strehl_ratio(psf_data) ==
    IF psf_data = None \/ psf_data.size = 0 THEN RZero
    ELSE LET center_idx == psf_data.size \div 2
             center_intensity == psf_data.at[<<center_idx, center_idx>>]
             total_energy == ArraySum(psf_data)
             avg_intensity ==
                 RDiv(total_energy, RInt(psf_data.size * psf_data.size))
         IN  IF RPos(avg_intensity)
             THEN RDiv(center_intensity, avg_intensity)
             ELSE RZero

(***************************************************************************)
(* Bounds of the model.                                                    *)
(***************************************************************************)
\* most rows the table is let grow to
MaxRows == 3
\* most PSFComputeThreads in flight at once
MaxThreads == 2

(***************************************************************************)
(* The state of the PSF tab and of its handlers.                           *)
(***************************************************************************)
VARIABLES
    table_rows,             \* PSFTab.table_rows, a sequence of row records
    param_choice,           \* param_choice_combo.currentText()
    source_units,           \* source_param_units_combo.currentText()
    source_value,           \* source_param_spin.value()
    sample_size_combo,      \* control_panel.sample_size_combo
    system_psf,             \* PSFTab.system_psf
    system_psf_valid,       \* PSFTab.system_psf_valid
    system_strehl_ratio,    \* PSFTab.system_strehl_ratio
    compute_system_after,   \* PSFTab.compute_system_after
    computing_rows,         \* ComputeHandler.computing_rows
    computation_cancelled,  \* ComputeHandler.computation_cancelled
    progress_dialog,        \* ComputeHandler.progress_dialog
    threads,                \* the started PSFComputeThreads still to report
    running,                \* the application has not been aborted
    system_call,            \* how compute_system_psf ran in the last step
    selected_row_idx,       \* PSFTab.selected_row_idx
    current_psf,            \* PSFTab.current_psf, the PSF on the plots
    current_step_microns,   \* PSFTab.current_step_microns, its pitch
    displayed_by,           \* the handler that put current_psf on the plots
    last_params,            \* PSFCalculator.last_params of a calculator
    last_psf,               \* the array its last compute() returned
    resolved_row,           \* a row _recalculate_row_params is applied to
    resolved_from,          \* the source and units it was last resolved from
    pupil_call,             \* the last call of _calc_pupil_function on doubles
    calcs,                  \* the PSFCalculator objects, by identity
    returned,               \* the last call on a calculator and its outcome
    workers                 \* PSFComputeThreads, each at a line of run()

display_vars == <<selected_row_idx, current_psf, current_step_microns,
                  displayed_by>>

gui_vars == <<table_rows, param_choice, source_units, source_value,
              sample_size_combo, system_psf, system_psf_valid,
              system_strehl_ratio, compute_system_after, computing_rows,
              computation_cancelled, progress_dialog, threads, running,
              system_call, display_vars>>

pure_vars == <<last_params, last_psf, resolved_row, resolved_from,
               pupil_call>>

calc_vars == <<calcs, returned, workers>>

vars == <<gui_vars, pure_vars, calc_vars>>

\* The handlers are written as functions of a state record; an action
\* applies one handler to the current state.
State ==
    [rows |-> table_rows, choice |-> param_choice, units |-> source_units,
     value |-> source_value, size_combo |-> sample_size_combo,
     sys |-> system_psf, valid |-> system_psf_valid,
     sstrehl |-> system_strehl_ratio, after |-> compute_system_after,
     q |-> computing_rows, canc |-> computation_cancelled,
     dlg |-> progress_dialog, thr |-> threads, alive |-> running,
     call |-> "none"]

Becomes(s) ==
    /\ table_rows' = s.rows
    /\ param_choice' = s.choice
    /\ source_units' = s.units
    /\ source_value' = s.value
    /\ sample_size_combo' = s.size_combo
    /\ system_psf' = s.sys
    /\ system_psf_valid' = s.valid
    /\ system_strehl_ratio' = s.sstrehl
    /\ compute_system_after' = s.after
    /\ computing_rows' = s.q
    /\ computation_cancelled' = s.canc
    /\ progress_dialog' = s.dlg
    /\ threads' = s.thr
    /\ running' = s.alive
    /\ system_call' = s.call
    /\ UNCHANGED <<pure_vars, calc_vars>>

InRange(rows, idx) == idx >= 0 /\ idx < Len(rows)

\* The plots of the tab, as a record the display handlers are functions of.
Display ==
    [sel |-> selected_row_idx, psf |-> current_psf,
     step_microns |-> current_step_microns, by |-> displayed_by]

Displays(d) ==
    /\ selected_row_idx' = d.sel
    /\ current_psf' = d.psf
    /\ current_step_microns' = d.step_microns
    /\ displayed_by' = d.by

\* an invalidation that resets the status and leaves the results in place
StatusReset(row) == [row EXCEPT !.status = "not_computed"]

\* the invalidation every parameter edit applies to a row
Invalidated(row) ==
    [row EXCEPT !.status = "not_computed", !.strehl_ratio = RZero,
                !.psf_data = None]

\* PSFTab._recalculate_row_params
recalculate_row_params(s, idx) ==
    IF ~InRange(s.rows, idx) THEN s
    ELSE [s EXCEPT !.rows[idx + 1] = RecalculatedRow(@, s.choice, s.units)]

\* An exception that leaves a slot unhandled: PyQt calls qFatal() and the
\* process is aborted (main.py installs no excepthook).
Aborted(s) == [s EXCEPT !.alive = FALSE]

(***************************************************************************)
(* ComputeHandler.                                                         *)
(***************************************************************************)
\* validate_row_params: "" when valid.  main.py defines no OpticalLimits, so
\* the import fails and the basic validation is the one that runs.
validate_row_params(row) ==
    IF ~RPos(row.wavelength) THEN "Wavelength must be positive (> 0)"
    ELSE IF ~RPos(row.back_aperture) THEN "NA must be positive (> 0)"
    ELSE IF ~RPos(row.magnification)
         THEN "Magnification must be positive (> 0)"
    ELSE IF ~RPos(row.diam_pupil) THEN "Pupil diameter must be positive (> 0)"
    ELSE ""

\* A started thread: the row index its callbacks are bound to, its params,
\* how it was started ("batch": by the batch now running, "cancelled": by a
\* batch the user has cancelled, "other": anything else), and whether
\* ComputeHandler.compute_thread still refers to it.
Thread(idx, params, tag) ==
    [idx |-> idx, params |-> params, tag |-> tag, held |-> TRUE]

RECURSIVE CopiesOf(_, _)
CopiesOf(thr, S) ==
    IF S = {} THEN 0
    ELSE LET t == CHOOSE x \in S : TRUE
         IN  thr[t] + CopiesOf(thr, S \ {t})

\* the bag thr with every thread t replaced by F(t)
Moved(thr, F(_)) ==
    LET S == BagToSet(thr)
    IN  [u \in {F(t) : t \in S} |-> CopiesOf(thr, {t \in S : F(t) = u})]

Retagged(thr, from, to) ==
    Moved(thr, LAMBDA t : IF t.tag = from THEN [t EXCEPT !.tag = to] ELSE t)

\* self.compute_thread = thread drops the only reference to the thread
\* started before
Released(thr) == Moved(thr, LAMBDA t : [t EXCEPT !.held = FALSE])

\* self.compute_thread = thread; thread.start().  The QThread released is
\* destroyed: if it is still in run(), Qt aborts the process ("QThread:
\* Destroyed while thread is still running"); if it has emitted its signal,
\* the queued call is still delivered.  Which of the two an unreported
\* thread is in is not known to the GUI thread.
Started(s, thread) ==
    {[s EXCEPT !.thr = Released(@) (+) SetToBag({thread})]}
    \cup (IF \E t \in BagToSet(s.thr) : t.held THEN {Aborted(s)} ELSE {})

\* compute_row: the set of states it may leave
compute_row(s, idx, tag) ==
    IF ~InRange(s.rows, idx) THEN {s}
    ELSE LET row == s.rows[idx + 1]
             error_msg == validate_row_params(row)
         IN  IF error_msg # ""
             THEN {[s EXCEPT !.rows[idx + 1].status = "error",
                             !.rows[idx + 1].error_message = error_msg]}
             ELSE Started([s EXCEPT !.rows[idx + 1].status = "computing"],
                          Thread(idx, get_params(row), tag))

\* QProgressDialog.close(), and the reset() that setValue(maximum) and
\* cancel() perform: the dialog is hidden
Hidden(dlg) == IF dlg = "shown" THEN "hidden" ELSE dlg

\* the accumulator as it would be were the loop to start at row 0 (the
\* first PSF convolved with itself)
RECURSIVE FoldFromRowZero(_, _)
FoldFromRowZero(rows, k) ==
    Normalized(fftconvolve_same(
        IF k = 1 THEN rows[1].psf_data ELSE FoldFromRowZero(rows, k - 1),
        rows[k].psf_data))

\* the accumulator as it would be were it normalized only by the row PSFs
\* being normalized
RECURSIVE FoldUnnormalized(_, _)
FoldUnnormalized(rows, k) ==
    IF k = 1 THEN rows[1].psf_data
    ELSE fftconvolve_same(FoldUnnormalized(rows, k - 1), rows[k].psf_data)

\* the accumulator of compute_system_psf after the first k rows
RECURSIVE FoldAcc(_, _)
FoldAcc(rows, k) ==
    IF k = 1 THEN rows[1].psf_data
    ELSE Normalized(fftconvolve_same(FoldAcc(rows, k - 1), rows[k].psf_data))

AllComputed(rows) ==
    \A k \in 1 .. Len(rows) :
        rows[k].status = "complete" /\ rows[k].psf_data # None

\* compute_system_psf; .copy() or fftconvolve raises on a psf_data of None
SystemStored(s, result_psf) ==
    [s EXCEPT !.sys = result_psf, !.valid = TRUE,
              !.sstrehl = calculate_strehl_ratio(result_psf)]

compute_system_psf(s) ==
    IF s.rows = <<>> THEN [s EXCEPT !.call = "empty"]
    ELSE LET call == IF AllComputed(s.rows) THEN "ready" ELSE "unready"
         IN  IF \E k \in 1 .. Len(s.rows) : s.rows[k].psf_data = None
             THEN Aborted([s EXCEPT !.call = call])
             ELSE SystemStored([s EXCEPT !.call = call],
                               FoldAcc(s.rows, Len(s.rows)))

\* the branch of on_row_computed / on_row_error taken when the queue is
\* empty; canceled.disconnect() raises TypeError on a dialog whose
\* connections an earlier call has removed
QueueDrained(s, system_too) ==
    IF s.dlg = "disconnected" THEN Aborted(s)
    ELSE LET s1 == IF s.dlg = "none" THEN s
                   ELSE [s EXCEPT !.dlg = "disconnected"]
         IN  IF system_too /\ s1.after
             THEN compute_system_psf([s1 EXCEPT !.after = FALSE])
             ELSE s1

\* _compute_next_in_queue when QProgressDialog.setValue delivers no event
compute_next_quiet(s) ==
    IF s.canc \/ s.q = <<>>
    THEN {[s EXCEPT !.dlg = Hidden(@)]}
    ELSE LET idx == Head(s.q)
             rest == Tail(s.q)
         IN  compute_row([s EXCEPT !.q = rest,
                                   !.dlg = IF rest = <<>> THEN Hidden(@) ELSE @],
                         idx, "batch")

\* a callback that marks the row complete and stores nothing
RowMarkedComplete(s, idx, psf_data) ==
    [s EXCEPT !.rows[idx + 1].status = "complete",
              !.rows[idx + 1].error_message = ""]

RowComputed(s, idx, psf_data) ==
    [s EXCEPT !.rows[idx + 1].psf_data = psf_data,
              !.rows[idx + 1].status = "complete",
              !.rows[idx + 1].error_message = "",
              !.rows[idx + 1].strehl_ratio = calculate_strehl_ratio(psf_data)]

RowFailed(s, idx, error_msg) ==
    [s EXCEPT !.rows[idx + 1].status = "error",
              !.rows[idx + 1].error_message = error_msg]

\* PSFComputeThread.run of thread t ends and its signal is delivered while
\* setValue is processing events: the slot runs inside the outer handler,
\* and its own setValue processes no events (QProgressDialog guards against
\* the recursion)
ContinuedQuiet(s1, system_too) ==
    IF s1.q # <<>> THEN compute_next_quiet(s1)
    ELSE {QueueDrained(s1, system_too)}

DeliveredTo(s0, t) ==
    IF ~InRange(s0.rows, t.idx) THEN {s0}
    ELSE IF compute_raises(t.params)
    THEN ContinuedQuiet(RowFailed(s0, t.idx, "compute failed"), FALSE)
    ELSE ContinuedQuiet(RowComputed(s0, t.idx, psf_of(t.params)), TRUE)

DeliveredInside(s, t) == DeliveredTo([s EXCEPT !.thr = @ (-) SetToBag({t})], t)

\* QCoreApplication.processEvents() inside setValue of the modal dialog: the
\* states after delivering the signals of at most n finished threads
RECURSIVE ProcessEvents(_, _)
ProcessEvents(s, n) ==
    IF n = 0 \/ ~s.alive THEN {s}
    ELSE {s} \cup UNION {UNION {ProcessEvents(x, n - 1) :
                                    x \in DeliveredInside(s, t)} :
                            t \in BagToSet(s.thr)}

\* _compute_next_in_queue: the set of states it may leave
compute_next_in_queue(s) ==
    IF s.canc \/ s.q = <<>>
    THEN {[s EXCEPT !.dlg = Hidden(@)]}
    ELSE LET idx == Head(s.q)
             rest == Tail(s.q)
             started(x) ==
                 IF ~x.alive THEN {x}
                 ELSE compute_row(
                          [x EXCEPT !.dlg = IF rest = <<>> THEN Hidden(@) ELSE @],
                          idx, "batch")
         IN  UNION {started(x) : x \in ProcessEvents([s EXCEPT !.q = rest],
                                                     BagCardinality(s.thr))}

compute_multiple_rows(s, indices) ==
    LET kept == SelectSeq(indices, LAMBDA i : InRange(s.rows, i))
    IN  IF kept = <<>> THEN {s}
        ELSE compute_next_in_queue(
                 [s EXCEPT !.q = kept, !.canc = FALSE, !.dlg = "shown",
                           !.thr = Retagged(@, "batch", "other")])

Continued(s1, system_too) ==
    IF s1.q # <<>> THEN compute_next_in_queue(s1)
    ELSE {QueueDrained(s1, system_too)}

on_row_computed(s, idx, psf_data) ==
    IF ~InRange(s.rows, idx) THEN {s}
    ELSE Continued(RowComputed(s, idx, psf_data), TRUE)

on_row_error(s, idx, error_msg) ==
    IF ~InRange(s.rows, idx) THEN {s}
    ELSE Continued(RowFailed(s, idx, error_msg), FALSE)

on_computation_cancelled(s) ==
    [s EXCEPT !.canc = TRUE, !.q = <<>>, !.after = FALSE,
              !.dlg = Hidden(@), !.thr = Retagged(@, "batch", "cancelled")]

(***************************************************************************)
(* TableHandler and the PSFTab handlers.                                   *)
(***************************************************************************)
COL_LAMBDA == 0
COL_NA == 1
COL_MAG == 2
COL_DEFOC == 3
COL_ASTIG == 4

InsertAt(seq, pos, x) ==
    SubSeq(seq, 1, pos) \o <<x>> \o SubSeq(seq, pos + 1, Len(seq))

RemoveAt(seq, pos) ==
    SubSeq(seq, 1, pos) \o SubSeq(seq, pos + 2, Len(seq))

add_row(s, row) ==
    LET idx == Len(s.rows)
        s1 == recalculate_row_params([s EXCEPT !.rows = Append(@, row)], idx)
    IN  [s1 EXCEPT !.valid = FALSE]

delete_row(s, idx) ==
    IF ~InRange(s.rows, idx) THEN s
    ELSE [s EXCEPT !.rows = RemoveAt(@, idx), !.valid = FALSE]

insert_row_before(s, idx) ==
    IF ~InRange(s.rows, idx) THEN s
    ELSE LET s1 == recalculate_row_params(
                       [s EXCEPT !.rows = InsertAt(@, idx, OpticalSystemRow)],
                       idx)
         IN  [s1 EXCEPT !.valid = FALSE]

insert_row_after(s, idx) ==
    IF ~InRange(s.rows, idx) THEN s
    ELSE LET insert_pos == idx + 1
             s1 == recalculate_row_params(
                       [s EXCEPT !.rows = InsertAt(@, insert_pos,
                                                   OpticalSystemRow)],
                       insert_pos)
         IN  [s1 EXCEPT !.valid = FALSE]

\* rnd: the four values random.uniform draws
randomize_row(s, idx, rnd) ==
    IF ~InRange(s.rows, idx) THEN s
    ELSE LET row == Invalidated(
                        [s.rows[idx + 1] EXCEPT
                            !.back_aperture = rnd.back_aperture,
                            !.magnification = rnd.magnification,
                            !.defocus = rnd.defocus,
                            !.astigmatism = rnd.astigmatism])
         IN  recalculate_row_params(
                 [s EXCEPT !.rows[idx + 1] = row, !.valid = FALSE], idx)

reset_row(s, idx) ==
    IF ~InRange(s.rows, idx) THEN s
    ELSE LET defaults == OpticalSystemRow
             row == Invalidated(
                        [s.rows[idx + 1] EXCEPT
                            !.wavelength = defaults.wavelength,
                            !.back_aperture = defaults.back_aperture,
                            !.magnification = defaults.magnification,
                            !.defocus = defaults.defocus,
                            !.astigmatism = defaults.astigmatism])
         IN  recalculate_row_params(
                 [s EXCEPT !.rows[idx + 1] = row, !.valid = FALSE], idx)

\* the source field _apply_source_param_to_all_rows writes
WithSourceValue(row, choice, units, value) ==
    CASE choice = "Diam pupil" -> [row EXCEPT !.diam_pupil = value]
      [] choice = "Step pupil" -> [row EXCEPT !.step_pupil = value]
      [] choice = "Step object" ->
            IF units = "c.u." THEN [row EXCEPT !.step_obj_can = value]
            ELSE [row EXCEPT !.step_obj_microns = value]
      [] choice = "Step image" ->
            IF units = "c.u." THEN [row EXCEPT !.step_im_can = value]
            ELSE [row EXCEPT !.step_im_microns = value]

apply_source_param_to_all_rows(s, value, units) ==
    IF s.rows = <<>> THEN s
    ELSE [s EXCEPT
            !.rows = [k \in 1 .. Len(s.rows) |->
                        RecalculatedRow(
                            Invalidated(WithSourceValue(s.rows[k], s.choice,
                                                        units, value)),
                            s.choice, s.units)],
            !.valid = FALSE]

on_sample_size_changed(s, size) ==
    IF s.rows = <<>> THEN s
    ELSE [s EXCEPT
            !.rows = [k \in 1 .. Len(s.rows) |->
                        RecalculatedRow(
                            Invalidated([s.rows[k] EXCEPT !.sample_size = size]),
                            s.choice, s.units)],
            !.valid = FALSE]

recalculate_all_rows_params(s) ==
    [s EXCEPT !.rows = [k \in 1 .. Len(s.rows) |->
                           RecalculatedRow(s.rows[k], s.choice, s.units)]]

\* _on_table_item_changed with a text that parses to the number value
on_table_item_changed(s, row_idx, col_idx, value) ==
    IF ~InRange(s.rows, row_idx) THEN s
    ELSE IF col_idx \notin {COL_LAMBDA, COL_NA, COL_MAG, COL_DEFOC, COL_ASTIG}
    THEN s
    ELSE LET old == s.rows[row_idx + 1]
             row == CASE col_idx = COL_LAMBDA -> [old EXCEPT !.wavelength = value]
                      [] col_idx = COL_NA -> [old EXCEPT !.back_aperture = value]
                      [] col_idx = COL_MAG -> [old EXCEPT !.magnification = value]
                      [] col_idx = COL_DEFOC -> [old EXCEPT !.defocus = value]
                      [] col_idx = COL_ASTIG -> [old EXCEPT !.astigmatism = value]
         IN  recalculate_row_params(
                 [s EXCEPT !.rows[row_idx + 1] = Invalidated(row),
                           !.valid = FALSE],
                 row_idx)

Uncomputed(rows) ==
    SelectSeq([k \in 1 .. Len(rows) |-> k - 1],
              LAMBDA i : rows[i + 1].status # "complete"
                         \/ rows[i + 1].psf_data = None)

on_compute_system_clicked(s) ==
    IF s.rows = <<>> THEN {s}
    ELSE IF s.valid THEN {s}        \* display_system_psf: the cached system PSF
    ELSE IF Uncomputed(s.rows) # <<>>
    THEN compute_multiple_rows([s EXCEPT !.after = TRUE], Uncomputed(s.rows))
    ELSE {compute_system_psf(s)}

RECURSIVE AddRows(_, _)
AddRows(s, dicts) ==
    IF dicts = <<>> THEN s
    ELSE AddRows(add_row(s, from_dict(Head(dicts))), Tail(dicts))

\* _on_clear_table_clicked, answered Yes
on_clear_table_clicked(s) == add_row([s EXCEPT !.rows = <<>>], OpticalSystemRow)


(***************************************************************************)
(* ControlPanel: the source-parameter combo boxes and spin box.            *)
(***************************************************************************)
\* the range setRange gives the spin box for a parameter and its units
SpinRange(param, units) ==
    CASE param = "Diam pupil" -> <<Rat(1, 10), RInt(100)>>
      [] param = "Step pupil" -> <<Rat(1, 1000), ROne>>
      [] OTHER -> IF units = "c.u." THEN <<Rat(1, 1000), RInt(10)>>
                  ELSE <<Rat(1, 1000), RInt(100)>>

\* the value setValue gives it
SpinDefault(param, units) ==
    CASE param = "Diam pupil" -> Rat(15, 2)
      [] param = "Step pupil" -> Rat(15, 1000)
      [] param = "Step object" ->
            IF units = "c.u." THEN Rat(133, 1000) ELSE Rat(73, 1000)
      [] param = "Step image" ->
            IF units = "c.u." THEN Rat(133, 1000) ELSE Rat(462, 1000)

Clamped(value, range) ==
    IF RLt(value, range[1]) THEN range[1]
    ELSE IF RLt(range[2], value) THEN range[2] ELSE value

(***************************************************************************)
(* FileHandler: save_config and load_config.                               *)
(***************************************************************************)
\* save_config: json.dump writes a float as the shortest text that reads
\* back as the same float, so the numbers of the file are those of the GUI
save_config(s) ==
    [version |-> "1.0", sample_size |-> s.size_combo,
     source_param |-> s.choice, source_param_value |-> s.value,
     source_param_units |-> s.units,
     rows |-> [k \in 1 .. Len(s.rows) |-> to_dict(s.rows[k])]]

\* the source-parameter settings load_config restores, the signals of the
\* combo boxes and of the spin box blocked: _on_param_changed sets the
\* range of the spin box, setValue keeps the value in that range, and no
\* slot applies the value to a row
RestoredSettings(s, config) ==
    IF "source_param" \notin DOMAIN config THEN s
    ELSE LET param == config.source_param
             units == IF param \in {"Diam pupil", "Step pupil"} THEN "c.u."
                      ELSE s.units
         IN  [s EXCEPT !.size_combo = config.sample_size,
                       !.choice = param,
                       !.units = config.source_param_units,
                       !.value = Clamped(config.source_param_value,
                                         SpinRange(param, units))]

\* load_config of a file that passes the format validation; the rows are
\* built by from_dict and recalculated by add_row
load_config(s, config) ==
    LET s1 == AddRows(RestoredSettings([s EXCEPT !.rows = <<>>], config),
                      config.rows)
    IN  [s1 EXCEPT !.valid = FALSE]

\* ControlPanel._on_param_changed for the user's choice of param, with the
\* slots its signals reach: every valueChanged applies the value to all
\* rows, then _on_param_choice_changed recalculates them
on_param_changed(s, param) ==
    LET units == IF param \in {"Diam pupil", "Step pupil"} THEN "c.u."
                 ELSE s.units
        ranged == Clamped(s.value, SpinRange(param, units))
        value == SpinDefault(param, units)
        signalled == units # s.units \/ ranged # s.value \/ value # ranged
        s1 == [s EXCEPT !.choice = param, !.units = units, !.value = value]
        s2 == IF signalled
              THEN apply_source_param_to_all_rows(s1, value, units) ELSE s1
    IN  recalculate_all_rows_params(s2)

\* _on_source_param_units_changed
on_source_param_units_changed(s, units) ==
    LET value == IF s.choice \in {"Step object", "Step image"}
                 THEN SpinDefault(s.choice, units) ELSE s.value
        s1 == [s EXCEPT !.units = units, !.value = value]
    IN  apply_source_param_to_all_rows(s1, value, units)

(***************************************************************************)
(* The inputs the environment supplies.                                    *)
(***************************************************************************)
\* cells the user edits, <<row, column, value typed>>: the wavelength of the
\* third row, to 0
TableEdits == {<<2, COL_LAMBDA, RZero>>}
\* values the user sets the source parameter spin box to
SourceValues == {RInt(2)}
\* the entry of the sample-size combo the user picks (a side other than the
\* default's)
SampleSizes == {1}
\* rows the user inserts before and after, deletes, randomizes and resets
InsertedBefore == {0}
InsertedAfter == {1}
DeletedRows == {1, 2}
RandomizedRows == {1}
ResetRows == {1}
\* draws of randomize_row: uniform(0.5, 1.5), (50, 200), (-2, 2), (-2, 2)
RandomDraws ==
    {[back_aperture |-> NA_DEFAULT, magnification |-> MAG_DEFAULT,
      defocus |-> Rat(1, 4), astigmatism |-> RZero]}
\* configuration files the user loads: one row, of sample_size 0
Configs == {[rows |-> <<[to_dict(OpticalSystemRow) EXCEPT !.sample_size = 0]>>]}

(***************************************************************************)
(* The plots: the PSF displayed and the pitch of its samples.              *)
(***************************************************************************)
\* PSFTab.__init__: nothing selected, nothing displayed
Undisplayed ==
    [sel |-> -1, psf |-> None, step_microns |-> None, by |-> "none"]

\* PSFTab._clear_plots
clear_plots(d) ==
    [d EXCEPT !.psf = None, !.step_microns = RZero, !.by = "none"]

\* PSFTab._on_table_selection_changed, row_idx being the first selected row
on_table_selection_changed(d, rows, row_idx) ==
    IF row_idx = d.sel THEN d
    ELSE LET d1 == [d EXCEPT !.sel = row_idx]
         IN  IF ~InRange(rows, row_idx) THEN d1
             ELSE IF rows[row_idx + 1].status = "complete"
                     /\ rows[row_idx + 1].psf_data # None
             THEN [d1 EXCEPT
                      !.psf = rows[row_idx + 1].psf_data,
                      !.step_microns = rows[row_idx + 1].step_obj_microns,
                      !.by = "_on_table_selection_changed"]
             ELSE clear_plots(d1)

\* ComputeHandler.display_system_psf
display_system_psf(d, s) ==
    IF s.sys = None THEN d
    ELSE [d EXCEPT !.psf = s.sys,
                   !.step_microns = s.rows[1].step_obj_microns,
                   !.by = "display_system_psf"]

\* on_row_computed, the update of the plots: s is the tab when the signal
\* of thread t arrives and x the tab as the slot leaves it
row_displayed(d, s, x, t) ==
    LET info == [step_microns |-> get_step_microns(t.params)]
        d1 == IF InRange(s.rows, t.idx) /\ t.idx = d.sel /\ ~s.after
              THEN [d EXCEPT !.psf = psf_of(t.params),
                             !.step_microns = info.step_microns,
                             !.by = "on_row_computed"]
              ELSE d
    IN  IF x.alive /\ x.call \in {"ready", "unready"}
        THEN display_system_psf(d1, x)
        ELSE d1

(***************************************************************************)
(* Init: the state PSFTab.__init__ leaves (three default rows, row 0       *)
(* being computed), and a PSFCalculator that has computed nothing.         *)
(***************************************************************************)
Constructed ==
    [rows |-> <<>>, choice |-> "Diam pupil", units |-> "c.u.",
     value |-> DIAM_PUPIL_DEFAULT, size_combo |-> SAMPLE_SIZE_DEFAULT,
     sys |-> None, valid |-> FALSE, sstrehl |-> None, after |-> FALSE,
     q |-> <<>>, canc |-> FALSE, dlg |-> "none", thr |-> EmptyBag,
     alive |-> TRUE, call |-> "none"]

initialize_default_rows(s) ==
    compute_row(add_row(add_row(add_row(s, OpticalSystemRow),
                                OpticalSystemRow), OpticalSystemRow),
                0, "other")

\* the PSF tab as constructed
Shown ==
    \E s \in initialize_default_rows(Constructed) :
        /\ table_rows = s.rows
        /\ param_choice = s.choice
        /\ source_units = s.units
        /\ source_value = s.value
        /\ sample_size_combo = s.size_combo
        /\ system_psf = s.sys
        /\ system_psf_valid = s.valid
        /\ system_strehl_ratio = s.sstrehl
        /\ compute_system_after = s.after
        /\ computing_rows = s.q
        /\ computation_cancelled = s.canc
        /\ progress_dialog = s.dlg
        /\ threads = s.thr
        /\ running = s.alive
        /\ system_call = s.call
        /\ \E d \in {on_table_selection_changed(Undisplayed, s.rows, 0)} :
              /\ selected_row_idx = d.sel
              /\ current_psf = d.psf
              /\ current_step_microns = d.step_microns
              /\ displayed_by = d.by

\* no calculator has been called; no thread is stepped through run()
NoCalls ==
    /\ calcs = [c \in Calculators |-> PSFCalculator]
    /\ returned = None
    /\ workers = <<>>

Init ==
    /\ Shown
    /\ last_params = None
    /\ last_psf = None
    /\ pupil_call = None
    /\ resolved_row = None
    /\ resolved_from = None
    /\ NoCalls

(***************************************************************************)
(* Actions: one per handler.                                               *)
(***************************************************************************)
\* the window-modal progress dialog takes the user's input while it is shown
UserCanAct == running /\ progress_dialog # "shown"

Bounded(s) == Len(s.rows) <= MaxRows /\ BagCardinality(s.thr) <= MaxThreads

\* a handler that leaves the plots and the selection as they are (the
\* plots are followed in SpecDisplay)
Step(s) == Bounded(s) /\ Becomes(s) /\ UNCHANGED display_vars

RowIndices == 0 .. (Len(table_rows) - 1)

OnTableItemChanged(edits) ==
    /\ UserCanAct
    /\ \E e \in edits :
          /\ e[1] \in RowIndices
          /\ Step(on_table_item_changed(State, e[1], e[2], e[3]))

\* the spin box takes only values of its range
OnSourceParamValueChanged(values) ==
    /\ UserCanAct
    /\ \E value \in values :
          /\ value # source_value
          /\ Clamped(value, SpinRange(param_choice, source_units)) = value
          /\ Step(apply_source_param_to_all_rows(
                      [State EXCEPT !.value = value], value, source_units))

OnSampleSizeChanged(sizes) ==
    /\ UserCanAct
    /\ \E size \in sizes :
          /\ size # sample_size_combo
          /\ Step(on_sample_size_changed([State EXCEPT !.size_combo = size],
                                         size))

OnParamChanged ==
    /\ UserCanAct
    /\ \E param \in SourceParams :
          /\ param # param_choice
          /\ Step(on_param_changed(State, param))

\* the units combo is enabled for the object and image steps only
OnSourceParamUnitsChanged ==
    /\ UserCanAct
    /\ param_choice \in {"Step object", "Step image"}
    /\ \E units \in SourceUnits :
          /\ units # source_units
          /\ Step(on_source_param_units_changed(State, units))

\* the context menu of a row of the table
InsertRowBefore ==
    /\ UserCanAct
    /\ \E idx \in RowIndices \cap InsertedBefore :
          Step(insert_row_before(State, idx))

InsertRowAfter ==
    /\ UserCanAct
    /\ \E idx \in RowIndices \cap InsertedAfter :
          Step(insert_row_after(State, idx))

DeleteRow ==
    /\ UserCanAct
    /\ \E idx \in RowIndices \cap DeletedRows : Step(delete_row(State, idx))

RandomizeRow ==
    /\ UserCanAct
    /\ \E idx \in RowIndices \cap RandomizedRows, rnd \in RandomDraws :
          Step(randomize_row(State, idx, rnd))

ResetRow ==
    /\ UserCanAct
    /\ \E idx \in RowIndices \cap ResetRows : Step(reset_row(State, idx))

OnClearTableClicked ==
    /\ UserCanAct
    /\ Step(on_clear_table_clicked(State))

LoadConfig ==
    /\ UserCanAct
    /\ \E config \in Configs : Step(load_config(State, config))

\* Save Configuration, then Load Configuration of the file written
SaveAndLoadConfig ==
    /\ UserCanAct
    /\ table_rows # <<>>
    /\ Step(load_config(State, save_config(State)))

\* list(range(len(table_rows)))
AllIndices(rows) == [k \in 1 .. Len(rows) |-> k - 1]

OnComputeAllClicked ==
    /\ UserCanAct
    /\ \E x \in compute_multiple_rows(State, AllIndices(table_rows)) : Step(x)

\* the rows selected in the table, in the order list(set(...)) yields
OnComputeSelectedClicked ==
    /\ UserCanAct
    /\ \E sel \in SUBSET RowIndices :
          \E x \in compute_multiple_rows(
                       State, SelectSeq(AllIndices(table_rows),
                                        LAMBDA i : i \in sel)) : Step(x)

OnComputeSystemClicked ==
    /\ UserCanAct
    /\ \E x \in on_compute_system_clicked(State) : Step(x)

\* the Cancel button of the progress dialog
OnComputationCancelled ==
    /\ running
    /\ progress_dialog = "shown"
    /\ Step(on_computation_cancelled(State))

\* a thread's run() ends: result_ready or error_occurred reaches the GUI
ThreadResultReady ==
    /\ running
    /\ \E t \in BagToSet(threads) :
          /\ ~compute_raises(t.params)
          /\ \E x \in on_row_computed(
                          [State EXCEPT !.thr = @ (-) SetToBag({t})],
                          t.idx, psf_of(t.params)) : Step(x)

ThreadErrorOccurred ==
    /\ running
    /\ \E t \in BagToSet(threads) :
          /\ compute_raises(t.params)
          /\ \E x \in on_row_error(
                          [State EXCEPT !.thr = @ (-) SetToBag({t})],
                          t.idx, "compute failed") : Step(x)

(***************************************************************************)
(* Spec: the computation of rows, singly and in batches, and of the system *)
(* PSF, on a table whose cells the user edits or replaces.                 *)
(***************************************************************************)
Next ==
    \/ OnTableItemChanged(TableEdits)
    \/ OnClearTableClicked
    \/ LoadConfig
    \/ OnComputeAllClicked
    \/ OnComputeSelectedClicked
    \/ OnComputeSystemClicked
    \/ OnComputationCancelled
    \/ ThreadResultReady
    \/ ThreadErrorOccurred

Spec == Init /\ [][Next]_vars

(***************************************************************************)
(* SpecTable: the system PSF of a table whose rows the user inserts,       *)
(* deletes, randomizes and resizes while no row is being computed.         *)
(***************************************************************************)
Idle == threads = EmptyBag

NextTable ==
    \/ Idle /\ OnSourceParamValueChanged(SourceValues)
    \/ Idle /\ OnSampleSizeChanged(SampleSizes)
    \/ Idle /\ InsertRowBefore
    \/ Idle /\ InsertRowAfter
    \/ Idle /\ DeleteRow
    \/ OnComputeSystemClicked
    \/ OnComputationCancelled
    \/ ThreadResultReady

SpecTable == Init /\ [][NextTable]_vars

(***************************************************************************)
(* SpecUnits: the derived step values of the rows under the operations     *)
(* that change a row's parameters or the source parameter.                 *)
(***************************************************************************)
\* cells the user edits: a wavelength of 0.0005 in the first row, a
\* magnification of 50 in the second
UnitEdits == {<<0, COL_LAMBDA, Rat(1, 2000)>>, <<1, COL_MAG, RInt(50)>>}
\* values the user sets the source parameter spin box to
UnitValues == {RInt(2), Rat(1, 2)}

NextUnits ==
    \/ OnTableItemChanged(UnitEdits)
    \/ OnSourceParamValueChanged(UnitValues)
    \/ OnSampleSizeChanged(SampleSizes)
    \/ OnParamChanged
    \/ OnSourceParamUnitsChanged
    \/ RandomizeRow
    \/ ResetRow

SpecUnits == Init /\ [][NextUnits]_vars

(***************************************************************************)
(* SpecResolve: calculate_step_params applied to one row, resolved from    *)
(* one source and then from the others (_on_param_choice_changed).         *)
(***************************************************************************)
\* the sources a row is resolved from: <<source_param, source_units>>
Sources ==
    {<<"Diam pupil", "c.u.">>, <<"Step pupil", "c.u.">>,
     <<"Step object", "c.u.">>, <<"Step object", "um">>,
     <<"Step image", "c.u.">>, <<"Step image", "um">>}

\* the rows resolved: the default row and rows of other positive inputs
ResolvedInputs ==
    {[OpticalSystemRow EXCEPT !.wavelength = w, !.back_aperture = na,
                              !.magnification = mag, !.sample_size = n] :
        w \in {WAVELENGTH_DEFAULT, Rat(13, 20)},
        na \in {NA_DEFAULT, Rat(1, 2)},
        mag \in {MAG_DEFAULT, ROne},
        n \in {512, 1024}}

\* the values of the source: the one the spin box gives it, and a pupil
\* diameter of 8
SourceValuesOf(src) ==
    {SpinDefault(src[1], src[2])}
    \cup (IF src[1] = "Diam pupil" THEN {RInt(8)} ELSE {})

InitResolve ==
    /\ Shown
    /\ last_params = None
    /\ last_psf = None
    /\ pupil_call = None
    /\ NoCalls
    /\ \E row \in ResolvedInputs, src \in Sources :
          \E value \in SourceValuesOf(src) :
              /\ resolved_row =
                     RecalculatedRow(WithSourceValue(row, src[1], src[2], value),
                                     src[1], src[2])
              /\ resolved_from = src

\* the source parameter is changed and the row recalculated from the value
\* it holds for the new source
Reresolve ==
    /\ resolved_row # None
    /\ \E src \in Sources \ {resolved_from} :
          /\ resolved_row' = RecalculatedRow(resolved_row, src[1], src[2])
          /\ resolved_from' = src
    /\ UNCHANGED <<gui_vars, last_params, last_psf, pupil_call, calc_vars>>

NextResolve == Reresolve

SpecResolve == InitResolve /\ [][NextResolve]_vars

(***************************************************************************)
(* SpecEngine: PSFCalculator.compute on valid parameter sets.              *)
(***************************************************************************)
EngineSizes == {1, 2}
EngineDiams == {Rat(15, 2), RInt(2), RInt(4), ROne}
EngineDefocus == {RZero, Rat(1, 4), Rat(1, 2), Rat(-1, 4)}
EngineAstigmatism == {RZero, Rat(1, 4), Rat(1, 2), ROne}

EngineParams ==
    {p \in [size : EngineSizes, wavelength : {WAVELENGTH_DEFAULT, Rat(13, 20)},
            back_aperture : {NA_DEFAULT}, magnification : {MAG_DEFAULT},
            defocus : EngineDefocus, astigmatism : EngineAstigmatism,
            diam_pupil : EngineDiams] :
        QuarterTurns(p.size, p.diam_pupil, p.defocus, p.astigmatism)}

Compute ==
    /\ \E p \in EngineParams :
          /\ last_params' = p
          /\ last_psf' = compute(p)
    /\ UNCHANGED <<gui_vars, resolved_row, resolved_from, pupil_call,
                 calc_vars>>

NextEngine == Compute

SpecEngine == Init /\ [][NextEngine]_vars

(***************************************************************************)
(* SpecEdits: the parameter edits of the rows of a table that is computed, *)
(* row by row and as a system, between the edits.                          *)
(***************************************************************************)
\* cells the user edits: one of each parameter column
EditedCells ==
    {<<0, COL_LAMBDA, Rat(13, 20)>>, <<0, COL_NA, Rat(1, 2)>>,
     <<1, COL_MAG, RInt(50)>>, <<1, COL_DEFOC, Rat(1, 4)>>,
     <<2, COL_ASTIG, Rat(1, 2)>>}

NextEdits ==
    \/ Idle /\ OnTableItemChanged(EditedCells)
    \/ Idle /\ OnSourceParamValueChanged(SourceValues)
    \/ Idle /\ OnSampleSizeChanged(SampleSizes)
    \/ Idle /\ RandomizeRow
    \/ Idle /\ ResetRow
    \/ OnComputeSystemClicked
    \/ ThreadResultReady

SpecEdits == Init /\ [][NextEdits]_vars

(***************************************************************************)
(* SpecCalc: calls of compute and get_step_microns on two PSFCalculator    *)
(* objects, and of the module function compute_psf, in any order.          *)
(***************************************************************************)
\* the arguments of the calls: parameter sets compute accepts, one of
\* them with astigmatism, one with a back_aperture of 0 and one with a
\* size of 0
CalcParams ==
    {KeyParams(k) : k \in {k \in KnownKeys : k[1] = 2}}
    \cup {[KeyParams(<<2, RInt(2), Rat(1, 4)>>) EXCEPT
              !.astigmatism = Rat(1, 4)],
          [KeyParams(<<2, RInt(2), RZero>>) EXCEPT !.back_aperture = RZero],
          [KeyParams(<<2, RInt(2), RZero>>) EXCEPT !.size = 0]}

ComputeCall ==
    /\ \E c \in Calculators, p \in CalcParams :
          \E out \in {compute_on(calcs[c], p)} :
              /\ calcs' = [calcs EXCEPT ![c] = out.self]
              /\ returned' = [op |-> "compute", calc |-> c,
                              before |-> calcs[c], params |-> p,
                              value |-> out.value]
    /\ UNCHANGED <<gui_vars, pure_vars, workers>>

GetStepMicronsCall ==
    /\ \E c \in Calculators :
          returned' = [op |-> "get_step_microns", calc |-> c,
                       before |-> calcs[c],
                       params |-> calcs[c].last_params,
                       value |-> get_step_microns_on(calcs[c])]
    /\ UNCHANGED <<gui_vars, pure_vars, calcs, workers>>

ComputePsfCall ==
    /\ \E p \in CalcParams :
          returned' = [op |-> "compute_psf", calc |-> 0,
                       before |-> PSFCalculator, params |-> p,
                       value |-> compute_psf(p)]
    /\ UNCHANGED <<gui_vars, pure_vars, calcs, workers>>

NextCalc ==
    \/ ComputeCall
    \/ GetStepMicronsCall
    \/ ComputePsfCall

SpecCalc == Init /\ [][NextCalc]_vars

(***************************************************************************)
(* SpecThreads: PSFComputeThread.run of two threads, interleaved line by   *)
(* line; each thread holds the parameter record it was constructed with.   *)
(***************************************************************************)
Workers == {1, 2}

\* the parameter records of the threads: two that compute accepts, of
\* different PSF and pitch, and one of size 0
ThreadParams ==
    {KeyParams(<<2, RInt(2), RZero>>),
     [KeyParams(<<2, Rat(15, 2), Rat(1, 4)>>) EXCEPT
         !.wavelength = Rat(13, 20)],
     [KeyParams(<<2, RInt(2), RZero>>) EXCEPT !.size = 0]}

\* one calculator shared by all the threads
SharedCalc(w) == 1

\* calc = PSFCalculator() in run(): the calculator of thread w is an object
\* of its own
CalcOf(w) == w

\* the threads constructed and started, none yet at its first line
InitThreads ==
    /\ Shown
    /\ last_params = None
    /\ last_psf = None
    /\ pupil_call = None
    /\ resolved_row = None
    /\ resolved_from = None
    /\ calcs = [c \in Calculators |-> PSFCalculator]
    /\ returned = None
    /\ workers \in [Workers -> {[pc |-> "run", params |-> p, psf |-> None,
                                 step_microns |-> None, emitted |-> None] :
                                    p \in ThreadParams}]

\* calc = PSFCalculator()
RunCreate ==
    /\ \E w \in Workers :
          /\ workers[w].pc = "run"
          /\ calcs' = [calcs EXCEPT ![CalcOf(w)] = PSFCalculator]
          /\ workers' = [workers EXCEPT ![w].pc = "compute"]
    /\ UNCHANGED <<gui_vars, pure_vars, returned>>

\* calc.compute(**self.params), to the assignment of _step_im_microns
RunComputeEnter ==
    /\ \E w \in Workers :
          /\ workers[w].pc = "compute"
          /\ \E out \in {compute_entered(calcs[CalcOf(w)], workers[w].params)} :
                /\ calcs' = [calcs EXCEPT ![CalcOf(w)] = out.self]
                /\ workers' = [workers EXCEPT
                                  ![w].pc = IF out.value = None THEN "fft"
                                            ELSE "except"]
    /\ UNCHANGED <<gui_vars, pure_vars, returned>>

\* the rest of compute: the pupil is kept in self and the psf returned
RunComputeReturn ==
    /\ \E w \in Workers :
          /\ workers[w].pc = "fft"
          /\ \E p \in {workers[w].params} :
                /\ calcs' = [calcs EXCEPT
                                ![CalcOf(w)].last_pupil =
                                    calc_pupil_function(
                                        p.size,
                                        RDiv(p.diam_pupil, RInt(p.size)),
                                        p.defocus, p.astigmatism)]
                /\ workers' = [workers EXCEPT
                                  ![w].pc = "step",
                                  ![w].psf = Returned(calcs[CalcOf(w)], p)]
    /\ UNCHANGED <<gui_vars, pure_vars, returned>>

\* step_microns = calc.get_step_microns(), inside the try of run()
RunGetStepMicrons ==
    /\ \E w \in Workers :
          /\ workers[w].pc = "step"
          /\ workers' =
                 IF calcs[CalcOf(w)].last_params = None
                 THEN [workers EXCEPT ![w].pc = "except"]
                 ELSE [workers EXCEPT
                          ![w].pc = "emit",
                          ![w].step_microns =
                              get_step_microns_on(calcs[CalcOf(w)])]
    /\ UNCHANGED <<gui_vars, pure_vars, calcs, returned>>

\* self.result_ready.emit(psf_data, elapsed_time, {'step_microns': ...})
RunEmitResult ==
    /\ \E w \in Workers :
          /\ workers[w].pc = "emit"
          /\ workers' = [workers EXCEPT
                            ![w].pc = "done",
                            ![w].emitted =
                                [signal |-> "result_ready",
                                 psf_data |-> workers[w].psf,
                                 step_microns |-> workers[w].step_microns]]
    /\ UNCHANGED <<gui_vars, pure_vars, calcs, returned>>

\* except Exception: self.error_occurred.emit(str(e))
RunEmitError ==
    /\ \E w \in Workers :
          /\ workers[w].pc = "except"
          /\ workers' = [workers EXCEPT
                            ![w].pc = "done",
                            ![w].emitted = [signal |-> "error_occurred"]]
    /\ UNCHANGED <<gui_vars, pure_vars, calcs, returned>>

NextThreads ==
    \/ RunCreate
    \/ RunComputeEnter
    \/ RunComputeReturn
    \/ RunGetStepMicrons
    \/ RunEmitResult
    \/ RunEmitError

SpecThreads == InitThreads /\ [][NextThreads]_vars

(***************************************************************************)
(* SpecSteps: calculate_step_params applied to rows of any inputs, zero    *)
(* and negative ones among them, from each source parameter.               *)
(***************************************************************************)
\* the rows calculate_step_params is given: each input at its default, at
\* zero or negative, and the source fields at a value the row may hold
AnyInputs ==
    {[OpticalSystemRow EXCEPT
         !.wavelength = w, !.back_aperture = na, !.magnification = mag,
         !.sample_size = n, !.diam_pupil = v, !.step_pupil = v,
         !.step_obj_can = v, !.step_im_can = v, !.step_obj_microns = v,
         !.step_im_microns = v] :
        w \in {WAVELENGTH_DEFAULT, RZero},
        na \in {NA_DEFAULT, Rat(-1, 2)},
        mag \in {MAG_DEFAULT, RZero},
        n \in {8, 0, -1},
        v \in {Rat(1, 8), RZero, RInt(-1)}}

InitSteps ==
    /\ Shown
    /\ last_params = None
    /\ last_psf = None
    /\ pupil_call = None
    /\ NoCalls
    /\ resolved_row \in AnyInputs
    /\ resolved_from = None

\* _recalculate_row_params: the row takes the values calculate_step_params
\* derives for it from the source selected
ResolveFrom ==
    /\ resolved_from = None
    /\ \E src \in Sources :
          /\ resolved_row' = RecalculatedRow(resolved_row, src[1], src[2])
          /\ resolved_from' = src
    /\ UNCHANGED <<gui_vars, last_params, last_psf, pupil_call, calc_vars>>

NextSteps == ResolveFrom

SpecSteps == InitSteps /\ [][NextSteps]_vars

(***************************************************************************)
(* SpecEnergy: the last lines of compute (total_energy, the division, the  *)
(* return) on intensity arrays, the all-zero one among them, which the     *)
(* field scale step_pupil / step_obj_can yields when it underflows to 0.0  *)
(* (diam_pupil = 1e-170).                                                  *)
(***************************************************************************)
EnergyLevels == {RZero, Rat(1, 4), Rat(1, 2), ROne}

\* the arrays np.abs(field) ** 2 the lines are reached with
EnergyInputs ==
    {[size |-> n, at |-> f] : n \in {1}, f \in [Grid(1) -> EnergyLevels]}
    \cup {[size |-> n, at |-> f] : n \in {2}, f \in [Grid(2) -> EnergyLevels]}

\* what the caller of compute has in hand afterwards: the array returned,
\* no exception, and the text get_last_error gives
NormalizeEnergy ==
    /\ \E intensity \in EnergyInputs :
          returned' = [op |-> "energy", intensity |-> intensity,
                       value |-> Normalized(intensity), raised |-> FALSE,
                       last_error |-> get_last_error]
    /\ UNCHANGED <<gui_vars, pure_vars, calcs, workers>>

NextEnergy == NormalizeEnergy

SpecEnergy == Init /\ [][NextEnergy]_vars

(***************************************************************************)
(* SpecBatch: batches that nobody cancels.  A started thread ends and Qt    *)
(* delivers its signal to the GUI thread, whose event loop is running:      *)
(* the two callbacks are weakly fair.                                       *)
(***************************************************************************)
\* cells the user edits: the wavelength of the second row, to 0
BatchEdits == {<<1, COL_LAMBDA, RZero>>}

NextBatch ==
    \/ OnTableItemChanged(BatchEdits)
    \/ LoadConfig
    \/ OnComputeAllClicked
    \/ OnComputeSystemClicked
    \/ ThreadResultReady
    \/ ThreadErrorOccurred

SpecBatch ==
    /\ Init
    /\ [][NextBatch]_vars
    /\ WF_vars(ThreadResultReady)
    /\ WF_vars(ThreadErrorOccurred)

(***************************************************************************)
(* SpecConfig: a table whose cells and source parameter the user edits is   *)
(* saved to a configuration file and loaded from it.                        *)
(***************************************************************************)
NextConfig ==
    \/ OnTableItemChanged(EditedCells)
    \/ OnSourceParamValueChanged(SourceValues)
    \/ OnParamChanged
    \/ SaveAndLoadConfig
    \/ ThreadResultReady

SpecConfig == Init /\ [][NextConfig]_vars

(***************************************************************************)
(* SpecDisplay: the plots while the user selects rows, edits the           *)
(* magnification and computes all rows, one batch at a time.               *)
(***************************************************************************)
DisplayEdits == {<<0, COL_MAG, ROne>>, <<1, COL_MAG, RInt(50)>>}

\* the user clicks a row of the table
OnTableSelectionChanged ==
    /\ UserCanAct
    /\ \E row_idx \in RowIndices :
          Displays(on_table_selection_changed(Display, table_rows, row_idx))
    /\ Becomes(State)

\* result_ready of the one thread in flight reaches on_row_computed
ThreadResultDisplayed ==
    /\ running
    /\ \E t \in BagToSet(threads) :
          /\ ~compute_raises(t.params)
          /\ \E x \in on_row_computed(
                          [State EXCEPT !.thr = @ (-) SetToBag({t})],
                          t.idx, psf_of(t.params)) :
                /\ Bounded(x)
                /\ Becomes(x)
                /\ Displays(row_displayed(Display, State, x, t))

NextDisplay ==
    \/ OnTableSelectionChanged
    \/ OnTableItemChanged(DisplayEdits)
    \/ Idle /\ OnComputeAllClicked
    \/ ThreadResultDisplayed

SpecDisplay == Init /\ [][NextDisplay]_vars

(***************************************************************************)
(* SpecPupil: _calc_pupil_function without aberration on grids of 1 to 4   *)
(* samples a side and on steps that are any double.                        *)
(***************************************************************************)
PupilSizes == 1 .. 4

PupilSteps ==
    {Finite(Rat(n, d)) : n \in -6 .. 6, d \in {1, 2, 4}}
    \cup {Infinity(1), Infinity(-1), NaN}

CalcPupilFunction ==
    /\ \E size \in PupilSizes, step_pupil \in PupilSteps :
          pupil_call' =
              [size |-> size, step_pupil |-> step_pupil,
               mask |-> [ij \in Grid(size) |->
                            FloatMask(ij[1], ij[2], size, step_pupil)],
               magnitude |-> [ij \in Grid(size) |->
                            FloatMagnitude(ij[1], ij[2], size, step_pupil)]]
    /\ UNCHANGED <<gui_vars, last_params, last_psf, resolved_row,
                   resolved_from, calc_vars>>

NextPupil == CalcPupilFunction

SpecPupil == Init /\ [][NextPupil]_vars

(***************************************************************************)
(* The properties checked.                                                 *)
(***************************************************************************)
\* what a row holds besides its results
RowParams(row) ==
    <<row.wavelength, row.back_aperture, row.magnification, row.defocus,
      row.astigmatism, row.sample_size, row.diam_pupil, row.step_pupil,
      row.step_obj_can, row.step_im_can, row.step_obj_microns,
      row.step_im_microns>>

\* a step changes the number of rows or the parameters of one
RowsEdited ==
    \/ Len(table_rows') # Len(table_rows)
    \/ \E k \in 1 .. Len(table_rows) :
          RowParams(table_rows'[k]) # RowParams(table_rows[k])

\* a step stores a computed PSF in a row (on_row_computed)
PsfStored ==
    \E k \in 1 .. Len(table_rows) :
        /\ k <= Len(table_rows')
        /\ table_rows'[k].psf_data # None
        /\ \/ table_rows'[k].psf_data # table_rows[k].psf_data
           \/ table_rows[k].status # "complete"
              /\ table_rows'[k].status = "complete"

\* C1: every step that edits the rows or stores a row's computed PSF, and
\* returns, leaves system_psf_valid False unless compute_system_psf ran in
\* it, and system_psf_valid becomes True only in a step in which
\* compute_system_psf ran.
C1_InvalidatedByEveryChange ==
    [][/\ (RowsEdited \/ PsfStored) /\ system_call' = "none" /\ running'
            => ~system_psf_valid'
       /\ ~system_psf_valid /\ system_psf_valid' => system_call' # "none"]_vars

\* C2: compute_system_psf is executed only on a non-empty table whose rows
\* all have status "complete" and a PSF, whether called by the button or
\* deferred to the end of a batch.
C2_SystemPsfOnlyWhenReady == system_call \in {"none", "ready"}

\* C3: the array compute returns sums to 1 when the total intensity is
\* greater than zero, and is the raw intensity when the total is zero.
C3_EnergyIsOne ==
    last_psf # None =>
        \E raw \in {Intensity(
                        last_params.size,
                        RDiv(last_params.diam_pupil, RInt(last_params.size)),
                        RDiv(ROne, last_params.diam_pupil),
                        last_params.defocus, last_params.astigmatism)} :
            IF RPos(ArraySum(raw)) THEN ArraySum(last_psf) = ROne
            ELSE last_psf = raw

\* a PSF that is not flat has been computed and sums to 1
C3_Witness ==
    /\ last_psf # None
    /\ last_params.size = 2
    /\ last_psf.at[<<0, 0>>] # last_psf.at[<<1, 1>>]
    /\ ArraySum(last_psf) = ROne

PositiveInputs(row) ==
    /\ row.sample_size > 0
    /\ RPos(row.wavelength)
    /\ RPos(row.back_aperture)
    /\ RPos(row.magnification)

StepRelations(row) ==
    /\ row.step_pupil = RDiv(row.diam_pupil, RInt(row.sample_size))
    /\ row.step_im_can = row.step_obj_can
    /\ row.step_obj_can =
          RDiv(ROne, RMul(row.step_pupil, RInt(row.sample_size)))
    /\ row.step_im_microns =
          RDiv(RMul(row.step_im_can, row.wavelength), row.back_aperture)
    /\ row.step_obj_microns =
          RDiv(RMul(row.step_obj_can, row.wavelength),
               RMul(row.magnification, row.back_aperture))

\* C4: after every operation, every row of positive sample_size,
\* wavelength, back_aperture and magnification satisfies the step
\* relations, whichever source parameter is selected.
C4_StepRelationsHold ==
    \A k \in 1 .. Len(table_rows) :
        PositiveInputs(table_rows[k]) => StepRelations(table_rows[k])

Derived(row) ==
    <<row.diam_pupil, row.step_pupil, row.step_obj_can, row.step_im_can,
      row.step_obj_microns, row.step_im_microns>>

\* C5: resolving a resolved row of positive inputs again, from another
\* source and the value the row holds for it, reproduces step_pupil and
\* every other derived value.
C5_ResolvingAgainAgrees ==
    [][resolved_row # None => Derived(resolved_row') = Derived(resolved_row)]_vars

InvalidInputs(wavelength, back_aperture, magnification, diam_pupil, size) ==
    \/ ~RPos(wavelength)
    \/ ~RPos(back_aperture)
    \/ ~RPos(magnification)
    \/ ~RPos(diam_pupil)
    \/ size < 1

\* C6: a row of invalid inputs (one of wavelength, back_aperture,
\* magnification, diam_pupil not positive, or sample_size not a positive
\* integer) is never in status "computing", and no thread is started
\* with such inputs.
C6_InvalidRowNeverComputed ==
    /\ \A k \in 1 .. Len(table_rows) :
          InvalidInputs(table_rows[k].wavelength, table_rows[k].back_aperture,
                        table_rows[k].magnification, table_rows[k].diam_pupil,
                        table_rows[k].sample_size)
              => table_rows[k].status # "computing"
    /\ \A t \in BagToSet(threads) :
          ~InvalidInputs(t.params.wavelength, t.params.back_aperture,
                         t.params.magnification, t.params.diam_pupil,
                         t.params.size)

\* the rows' PSF arrays are not all of one shape
MismatchedShapes(rows) ==
    \E j, k \in 1 .. Len(rows) :
        /\ rows[j].psf_data # None
        /\ rows[k].psf_data # None
        /\ rows[j].psf_data.size # rows[k].psf_data.size

\* C7: a step in which compute_system_psf runs on an empty table, or on
\* rows whose PSF arrays differ in shape, fails hard: it stores no
\* system_psf and leaves system_psf_valid False.
C7_MismatchFailsHard ==
    [][system_call' # "none"
       /\ (table_rows' = <<>> \/ MismatchedShapes(table_rows'))
           => system_psf' = system_psf /\ ~system_psf_valid']_vars

\* C8: when compute_system_psf runs on a table of exactly one computed
\* row, the system_psf it stores equals that row's psf_data, and a call
\* straight from the button (the row computed, no thread reporting)
\* leaves the row as it was.
C8_SingleRowIdentity ==
    [][system_call' = "ready" /\ Len(table_rows') = 1
           => /\ system_psf' = table_rows'[1].psf_data
              /\ AllComputed(table_rows) /\ threads' = threads
                    => table_rows' = table_rows]_vars

\* compute_system_psf has run on a single row whose PSF is not flat
C8_Witness ==
    /\ system_call = "ready"
    /\ Len(table_rows) = 1
    /\ system_psf_valid
    /\ system_psf = table_rows[1].psf_data
    /\ system_psf.size = 2
    /\ system_psf.at[<<0, 0>>] # system_psf.at[<<1, 1>>]

\* the accumulator the claim describes: row 0's PSF, then for each
\* following row the convolution with its PSF, divided by its total
RECURSIVE TableOrderFold(_, _)
TableOrderFold(rows, k) ==
    IF k = 1 THEN rows[1].psf_data
    ELSE DividedBy(fftconvolve_same(TableOrderFold(rows, k - 1),
                                    rows[k].psf_data),
                   ArraySum(fftconvolve_same(TableOrderFold(rows, k - 1),
                                             rows[k].psf_data)))

\* the total of the accumulator of compute_system_psf at step k, before it
\* is divided
StepTotal(rows, k) ==
    IF k = 1 THEN ArraySum(rows[1].psf_data)
    ELSE ArraySum(fftconvolve_same(FoldAcc(rows, k - 1), rows[k].psf_data))

\* C9: the system_psf compute_system_psf stores is the fold of the rows'
\* PSFs in table order, re-normalized after each convolution, and the
\* accumulator sums to 1 after every step whose total is greater than zero.
C9_FoldInTableOrder ==
    [][system_call' = "ready"
           => /\ system_psf' = TableOrderFold(table_rows', Len(table_rows'))
              /\ \A k \in 1 .. Len(table_rows') :
                    RPos(StepTotal(table_rows', k))
                        => ArraySum(FoldAcc(table_rows', k)) = ROne]_vars

\* compute_system_psf has run on three rows, of which the first is not
\* flat and the last is
C9_Witness ==
    /\ system_call = "ready"
    /\ Len(table_rows) = 3
    /\ system_psf_valid
    /\ table_rows[1].psf_data # table_rows[3].psf_data
    /\ table_rows[1].psf_data.size = table_rows[3].psf_data.size
    /\ ArraySum(system_psf) = ROne

\* what on_row_computed stores in a row
RowResults(rows) ==
    [k \in 1 .. Len(rows) |->
        <<rows[k].psf_data, rows[k].status, rows[k].strehl_ratio>>]

\* C10: the step in which a thread of a cancelled batch reports changes no
\* row's psf_data, status or strehl_ratio.
C10_CancelledResultDiscarded ==
    [][(\E t \in BagToSet(threads) :
           /\ t.tag = "cancelled"
           /\ threads' = threads (-) SetToBag({t}))
           => RowResults(table_rows') = RowResults(table_rows)]_vars

\* the results of a row are those of a row that has not been computed
ResultInvalid(row) ==
    /\ row.status = "not_computed"
    /\ row.psf_data = None
    /\ row.strehl_ratio = RZero

\* every parameter edit, applied to the table as it is, leaves the rows it
\* edits without results
EditsInvalidate ==
    \A k \in 1 .. Len(table_rows) :
        /\ \A e \in EditedCells :
              e[1] = k - 1 =>
                  ResultInvalid(
                      on_table_item_changed(State, e[1], e[2], e[3]).rows[k])
        /\ \A value \in SourceValues :
              ResultInvalid(
                  apply_source_param_to_all_rows(State, value,
                                                 source_units).rows[k])
        /\ \A size \in SampleSizes :
              ResultInvalid(on_sample_size_changed(State, size).rows[k])
        /\ \A rnd \in RandomDraws :
              ResultInvalid(randomize_row(State, k - 1, rnd).rows[k])
        /\ ResultInvalid(reset_row(State, k - 1).rows[k])

\* C11: when a parameter edit returns (a cell edit, a source value change,
\* a sample size change, randomize_row, reset_row), every row whose
\* parameters it changed has status "not_computed", no psf_data and a
\* strehl_ratio of 0; and each of these edits, applied to any state
\* reached, leaves the rows it edits so.
C11_EditInvalidatesRow ==
    /\ [][\A k \in 1 .. Len(table_rows) :
             RowParams(table_rows'[k]) # RowParams(table_rows[k])
                 => ResultInvalid(table_rows'[k])]_vars
    /\ []EditsInvalidate

\* the system PSF of the three rows has been computed, and the second row,
\* edited since (its defocus is no longer the default), has no results
C11_Witness ==
    /\ system_psf # None
    /\ ~system_psf_valid
    /\ table_rows[2].defocus = Rat(1, 4)
    /\ ResultInvalid(table_rows[2])
    /\ table_rows[1].status = "complete"

\* C12: the array a compute call returns (or the exception it raises) is
\* the one a calculator that has computed nothing returns for the same
\* arguments, whichever calculator is called and whatever it has computed
\* before; so two calls with equal arguments return equal arrays.
C12_ResultDependsOnArguments ==
    returned # None /\ returned.op \in {"compute", "compute_psf"}
        => returned.value = compute_on(PSFCalculator, returned.params).value

\* compute has returned an array on a calculator that had computed the PSF
\* of other arguments, of the same size, before
C12_Witness ==
    /\ returned # None
    /\ returned.op = "compute"
    /\ returned.before.last_params # None
    /\ returned.before.last_params # returned.params
    /\ returned.before.last_params.size = returned.params.size
    /\ returned.value = compute(returned.params)
    /\ returned.value # compute(returned.before.last_params)

\* C13: under every interleaving of the lines of two threads, the PSF and
\* the step_microns a thread emits are those of its own parameter record.
C13_ThreadEmitsItsOwn ==
    \A w \in Workers :
        workers[w].emitted # None
        /\ workers[w].emitted.signal = "result_ready"
            => /\ workers[w].emitted.psf_data = compute(workers[w].params)
               /\ workers[w].emitted.step_microns =
                      get_step_microns(workers[w].params)

\* a thread has emitted its result while the other, constructed with other
\* parameters, is inside compute
C13_Witness ==
    /\ workers[1].emitted # None
    /\ workers[1].emitted.signal = "result_ready"
    /\ workers[2].pc = "fft"
    /\ workers[2].params # workers[1].params
    /\ calcs[2].step_im_microns # workers[1].emitted.step_microns

\* C14: whatever the inputs, zero and negative ones included, the six
\* values calculate_step_params derives from a known source are all
\* strictly positive.
C14_DerivedValuesPositive ==
    resolved_from # None =>
        /\ RPos(resolved_row.diam_pupil)
        /\ RPos(resolved_row.step_pupil)
        /\ RPos(resolved_row.step_obj_can)
        /\ RPos(resolved_row.step_im_can)
        /\ RPos(resolved_row.step_obj_microns)
        /\ RPos(resolved_row.step_im_microns)

\* C15: when the total intensity is zero, compute returns the intensity
\* array unchanged, raises nothing, and leaves the caller a flag (the one
\* channel beside the array is get_last_error) that a normal result does
\* not leave.
C15_DegenerateResultFlagged ==
    returned # None /\ returned.op = "energy"
    /\ ArraySum(returned.intensity) = RZero
        => /\ returned.value = returned.intensity
           /\ ~returned.raised
           /\ returned.last_error # ""

\* the score as the claim defines it: the central sample over the mean
\* sample where the mean is positive, 0 otherwise
CenterOverMean(psf) ==
    LET c == psf.size \div 2
        pixels == psf.size * psf.size
    IN  IF pixels > 0 /\ RPos(ArraySum(psf))
        THEN RDiv(RMul(psf.at[<<c, c>>], RInt(pixels)), ArraySum(psf))
        ELSE RZero

\* an array of no samples, and one of four zeros
NoSamples == [size |-> 0, at |-> <<>>]
ZeroSamples == [size |-> 2, at |-> [ij \in Grid(2) |-> RZero]]

\* C16: calculate_strehl_ratio is the central sample over the mean sample,
\* and 0 for None, an empty array and a mean that is not positive; the
\* strehl_ratio of every row that holds a PSF and the system_strehl_ratio
\* of the stored system PSF are this score of the array they belong to.
C16_StrehlIsCenterOverMean ==
    /\ calculate_strehl_ratio(None) = RZero
    /\ calculate_strehl_ratio(NoSamples) = RZero
    /\ calculate_strehl_ratio(ZeroSamples) = RZero
    /\ \A k \in 1 .. Len(table_rows) :
          table_rows[k].psf_data # None =>
              table_rows[k].strehl_ratio = CenterOverMean(table_rows[k].psf_data)
    /\ system_psf # None => system_strehl_ratio = CenterOverMean(system_psf)

\* a row and the system both hold a PSF that is not flat, and a score that
\* is neither 0 nor 1
C16_Witness ==
    /\ system_psf_valid
    /\ table_rows[1].status = "complete"
    /\ table_rows[1].strehl_ratio \notin {RZero, ROne}
    /\ system_strehl_ratio \notin {RZero, ROne}
    /\ system_strehl_ratio # table_rows[1].strehl_ratio

\* the squared magnitude of a complex sample <<re, im>>
Magnitude2(z) == z[1] * z[1] + z[2] * z[2]

\* the pupil kept by a call of compute that returned has, at every sample,
\* magnitude 1 inside and on the unit disk and 0 outside
UnitDiskPupil(self) ==
    LET p == self.last_params
        step_pupil == RDiv(p.diam_pupil, RInt(p.size))
        half == p.size \div 2
    IN  \A ij \in Grid(p.size) :
            Magnitude2(self.last_pupil.at[ij]) =
                IF RLe(RMul(RInt((ij[1] - half) * (ij[1] - half)
                                 + (ij[2] - half) * (ij[2] - half)),
                            RMul(step_pupil, step_pupil)),
                       ROne)
                THEN 1 ELSE 0

\* C17: every sample (i, j) of the pupil function has magnitude 1 if
\* ((i - size//2)^2 + (j - size//2)^2) * step_pupil^2 <= 1, the boundary
\* included, and 0 otherwise, whatever the defocus and the astigmatism.
C17_PupilIsUnitDisk ==
    \A c \in Calculators :
        calcs[c].last_params # None /\ ~compute_raises(calcs[c].last_params)
            => UnitDiskPupil(calcs[c])

\* a pupil with defocus and astigmatism that has samples on the edge of the
\* disk (magnitude 1) and a sample outside it (magnitude 0)
C17_Witness ==
    /\ calcs[1].last_pupil # None
    /\ calcs[1].last_params.astigmatism # RZero
    /\ calcs[1].last_params.defocus # RZero
    /\ Rho2(0, 1, 2, RDiv(calcs[1].last_params.diam_pupil, RInt(2))) = ROne
    /\ Magnitude2(calcs[1].last_pupil.at[<<0, 1>>]) = 1
    /\ Magnitude2(calcs[1].last_pupil.at[<<0, 0>>]) = 0
    /\ calcs[1].last_pupil.at[<<0, 1>>] # calcs[1].last_pupil.at[<<1, 1>>]

\* C18: get_step_microns raises RuntimeError on a calculator on which no
\* compute has been called, and otherwise returns
\* wavelength / (diam_pupil * back_aperture) of the arguments of the most
\* recent compute call on that calculator.
C18_StepOfLastCompute ==
    returned # None /\ returned.op = "get_step_microns" =>
        IF returned.before.last_params = None
        THEN returned.value = Raised("RuntimeError")
        ELSE returned.value =
                 RDiv(returned.before.last_params.wavelength,
                      RMul(returned.before.last_params.diam_pupil,
                           returned.before.last_params.back_aperture))

\* the arguments of a compute call with the sign of defocus turned
MirroredDefocus(p) == [p EXCEPT !.defocus = RSub(RZero, p.defocus)]

\* the phase of the mirrored call is a whole number of quarter turns too
MirrorComputed(p) ==
    QuarterTurns(p.size, p.diam_pupil, MirroredDefocus(p).defocus,
                 p.astigmatism)

Transposed(arr) ==
    [size |-> arr.size,
     at |-> [ij \in Grid(arr.size) |-> arr.at[<<ij[2], ij[1]>>]]]

SameArray(a, b) ==
    a.size = b.size /\ \A ij \in Grid(a.size) : a.at[ij] = b.at[ij]

\* C19, as stated: compute with defocus d and with defocus -d, the other
\* arguments equal, return PSFs that are equal pixel by pixel.
C19_DefocusSignSymmetry ==
    last_psf # None /\ MirrorComputed(last_params) =>
        SameArray(compute(MirroredDefocus(last_params)), last_psf)

\* C19, amended: compute with defocus -d returns the transpose of the PSF
\* it returns with defocus d; the two PSFs are equal pixel by pixel when
\* astigmatism is 0.
C19_DefocusSignTransposes ==
    last_psf # None /\ MirrorComputed(last_params) =>
        /\ SameArray(compute(MirroredDefocus(last_params)),
                     Transposed(last_psf))
        /\ last_params.astigmatism = RZero =>
               SameArray(compute(MirroredDefocus(last_params)), last_psf)

\* a PSF computed with defocus and astigmatism that is not its own
\* transpose: the PSF of the mirrored defocus differs from it
C19_Witness ==
    /\ last_psf # None
    /\ last_params.defocus # RZero
    /\ last_params.astigmatism # RZero
    /\ MirrorComputed(last_params)
    /\ ~SameArray(Transposed(last_psf), last_psf)
    /\ SameArray(compute(MirroredDefocus(last_params)), Transposed(last_psf))

\* the row's PSF is there and is the one compute returns for the
\* parameters the row holds now
RowCurrent(row) ==
    /\ row.status = "complete"
    /\ row.psf_data # None
    /\ ~compute_raises(get_params(row))
    /\ row.psf_data = psf_of(get_params(row))

\* C20: whenever system_psf_valid is True, system_psf is not None, every
\* row has status "complete", and system_psf is the fold in table order of
\* PSFs computed from the rows' current parameters.
C20_ValidSystemIsCurrent ==
    system_psf_valid =>
        /\ system_psf # None
        /\ table_rows # <<>>
        /\ \A k \in 1 .. Len(table_rows) : RowCurrent(table_rows[k])
        /\ system_psf = TableOrderFold(table_rows, Len(table_rows))

\* a step stores in row k a PSF the row did not hold, with status "complete"
StoredComplete(k) ==
    /\ table_rows'[k].status = "complete"
    /\ table_rows'[k].psf_data # None
    /\ k > Len(table_rows) \/ table_rows'[k].psf_data # table_rows[k].psf_data

\* C21: a PSF stored in a row with status "complete" is the PSF compute
\* returns for the parameters that row holds when it is stored.
C21_StoredPsfIsOfTheRow ==
    [][\A k \in 1 .. Len(table_rows') :
          StoredComplete(k) =>
              /\ ~compute_raises(get_params(table_rows'[k]))
              /\ table_rows'[k].psf_data = psf_of(get_params(table_rows'[k]))]_vars

\* C22: a batch that is not cancelled ends: once the progress dialog is
\* shown, the queue becomes empty and the dialog is closed (unless the
\* application is aborted first).
C22_BatchTerminates ==
    (running /\ progress_dialog = "shown")
        ~> (~running \/ (computing_rows = <<>> /\ progress_dialog # "shown"))

\* C24: once Compute System PSF has started a batch for the missing rows
\* (compute_system_after is True), compute_system_psf eventually runs and
\* system_psf_valid becomes True (unless the application is aborted first).
C24_SystemPsfFollowsBatch ==
    (running /\ compute_system_after) ~> (~running \/ system_psf_valid)

\* C23: a PSFComputeThread is started only after the callback of the one
\* started before it has been handled, so at most one thread is in flight
\* (started, its callback not yet handled) at any time, whatever the
\* buttons clicked, the cancels and the callbacks.
C23_OneThreadInFlight == running => BagCardinality(threads) <= 1

\* the step is the callback of a thread of a cancelled batch
CancelledCallback ==
    /\ running
    /\ \E t \in BagToSet(threads) :
          /\ t.tag = "cancelled"
          /\ \E x \in (IF compute_raises(t.params)
                       THEN on_row_error(
                                [State EXCEPT !.thr = @ (-) SetToBag({t})],
                                t.idx, "compute failed")
                       ELSE on_row_computed(
                                [State EXCEPT !.thr = @ (-) SetToBag({t})],
                                t.idx, psf_of(t.params))) : Becomes(x)

\* the step starts a thread: compute_thread refers to one it did not
\* refer to before
ThreadStarted == \E u \in BagToSet(threads') : u.held /\ u \notin BagToSet(threads)

\* C25: from _on_computation_cancelled until the next compute_multiple_rows
\* computing_rows is empty and compute_system_after is False, and the
\* callback of a thread of the cancelled batch neither runs
\* compute_system_psf nor starts a row.
C25_CancelStopsTheBatch ==
    /\ [](computation_cancelled
            => computing_rows = <<>> /\ ~compute_system_after)
    /\ [][CancelledCallback => system_call' = "none" /\ ~ThreadStarted]_vars

\* C26: compute_system_after is True only while the batch Compute System
\* PSF started is in progress: rows are queued, or a row of the batch is
\* being computed.
C26_FlagOnlyDuringItsBatch ==
    running /\ compute_system_after =>
        \/ computing_rows # <<>>
        \/ \E t \in BagToSet(threads) : t.tag = "batch"

\* the table as it is after save_config and load_config of the file
SavedAndLoaded == load_config(State, save_config(State))

\* C27: saving the rows and loading them again yields rows whose engine
\* parameters (get_params) are those of the rows saved.
C27_SaveLoadKeepsParams ==
    table_rows # <<>> =>
        /\ Len(SavedAndLoaded.rows) = Len(table_rows)
        /\ \A k \in 1 .. Len(table_rows) :
              get_params(SavedAndLoaded.rows[k]) = get_params(table_rows[k])

\* C28: a row with status "complete" has a PSF, and a row with status
\* "not_computed" has no PSF and a Strehl ratio of 0.
C28_StatusMatchesResults ==
    \A k \in 1 .. Len(table_rows) :
        /\ table_rows[k].status = "complete" => table_rows[k].psf_data # None
        /\ table_rows[k].status = "not_computed"
               => /\ table_rows[k].psf_data = None
                  /\ table_rows[k].strehl_ratio = RZero

\* a row has been computed, and the third row has been edited after all
\* three rows were computed for the system PSF
C28_Witness ==
    /\ Len(table_rows) = 3
    /\ table_rows[1].status = "complete"
    /\ table_rows[1].psf_data # None
    /\ system_psf # None
    /\ table_rows[3].wavelength = RZero
    /\ table_rows[3].status = "not_computed"
    /\ table_rows[3].psf_data = None

\* the selected row's PSF is on the plots
RowOnThePlots ==
    /\ displayed_by \in {"on_row_computed", "_on_table_selection_changed"}
    /\ InRange(table_rows, selected_row_idx)
    /\ table_rows[selected_row_idx + 1].status = "complete"
    /\ table_rows[selected_row_idx + 1].psf_data # None
    /\ current_psf = table_rows[selected_row_idx + 1].psf_data

\* C29: while a row's computed PSF is displayed, current_step_microns is
\* the same value whether on_row_computed or _on_table_selection_changed
\* displayed it: the pitch on the plots is the one selecting the row gives.
C29_OnePitchForADisplayedRow ==
    RowOnThePlots =>
        current_step_microns =
            on_table_selection_changed(
                Undisplayed, table_rows, selected_row_idx).step_microns

\* C30: for every size >= 1 and every step_pupil the mask of
\* _calc_pupil_function contains the centre sample (size // 2, size // 2),
\* and at least one sample of the pupil has magnitude 1.
C30_CentreInMask ==
    pupil_call # None =>
        /\ pupil_call.mask[<<pupil_call.size \div 2, pupil_call.size \div 2>>]
        /\ \E ij \in Grid(pupil_call.size) : pupil_call.magnitude[ij] = "1"

============================================================================
